---- MODULE Spec2Model ----
(***************************************************************************)
(* A model of trakt-mcp-go: the line-oriented JSON-RPC dispatcher          *)
(* (Server.RunWithIO, handleMessage, dispatch and the method handlers),    *)
(* the four tool handlers and the Trakt client they call.                  *)
(*                                                                         *)
(* JSON documents are modelled as syntax trees: a value is a record with a *)
(* tag t; an object carries its members in o.  A json.RawMessage is the    *)
(* tree of the bytes it holds, and Absent stands for the nil/empty         *)
(* RawMessage of a member that was not present.  Text built by             *)
(* fmt.Sprintf is the sequence of its pieces.                              *)
(***************************************************************************)
EXTENDS Integers, Sequences, FiniteSets, TLC

VARIABLES
    pc,          \* where RunWithIO stands: "setup", "scan", "handle", "write", "done"
    tools,       \* Server.tools: name -> Tool
    handlers,    \* Server.handlers: name -> ToolHandler
    initialized, \* Server.initialized
    config,      \* Client.config
    cancelled,   \* ctx.Done() is closed
    line,        \* scanner.Bytes() of the line being processed
    lineNo,      \* number of lines scanned so far
    resp,        \* the *Response handleMessage returned for line
    invoked,     \* the tool handler handleMessage invoked for line, or NoCall
    out,         \* what has been written to the output stream
    ret,         \* what RunWithIO returned
    mu,          \* Server.mu, the sync.RWMutex around tools and handlers
    goroutines   \* the goroutines using the registry concurrently: where each stands

vars == <<pc, tools, handlers, initialized, config, cancelled, line, lineNo,
          resp, invoked, out, ret, mu, goroutines>>

-----------------------------------------------------------------------------
(* Bounds of the model *)

\* number of input lines RunWithIO reads in one run
MaxLines == 2

-----------------------------------------------------------------------------
(* JSON values *)

Absent == [t |-> "absent"]
JNull == [t |-> "null"]
JStr(s) == [t |-> "string", s |-> s]
JNum(n) == [t |-> "number", n |-> n]
JObj(f) == [t |-> "object", o |-> f]
EmptyObj == [t |-> "object", o |-> <<>>]
\* bytes that are not a JSON document, e.g. `{invalid json`
Garbage == [t |-> "garbage"]
\* a line of length 0
Blank == [t |-> "blank"]

Member(j, k) == IF k \in DOMAIN j.o THEN j.o[k] ELSE Absent

\* nil pointer / nil interface / nil error
Nil == [t |-> "nil"]

\* encoding/json: can these bytes be decoded at all (json.Unmarshal's syntax check;
\* empty input is "unexpected end of JSON input")
ValidJSON(j) == j.t \notin {"absent", "garbage", "blank"}

\* encoding/json decoding a member into a Go string field: a string is stored,
\* null and a missing member leave the zero value, anything else is a type error
StringOK(j) == j.t \in {"absent", "null", "string"}
StringOf(j) == IF j.t = "string" THEN j.s ELSE ""

\* encoding/json decoding a member into a Go int field
IntOK(j) == j.t \in {"absent", "null", "number"}
IntOf(j) == IF j.t = "number" THEN j.n ELSE 0

\* encoding/json decoding a member into a struct (or pointer to struct) field whose
\* own members need no check here
StructOK(j) == j.t \in {"absent", "null", "object"}

-----------------------------------------------------------------------------
(* types.go: the JSON-RPC envelope *)

ParseError == -32700
InvalidRequest == -32600
MethodNotFound == -32601
InvalidParams == -32602
InternalError == -32603

ProtocolVersion == "2024-11-05"
ServerName == "trakt-mcp-go"
ServerVersion == "0.1.0"

ZeroRequest == [JSONRPC |-> "", ID |-> Absent, Method |-> "", Params |-> Absent]

\* json.Unmarshal(data, &req) for Request: ID and Params are json.RawMessage and
\* keep the member's bytes whatever they are (null included)
\* a type error is reported after the other members have been stored
UnmarshalRequest(data) ==
    IF ~ValidJSON(data) THEN [err |-> TRUE, req |-> ZeroRequest]
    ELSE IF data.t = "null" THEN [err |-> FALSE, req |-> ZeroRequest]
    ELSE IF data.t # "object" THEN [err |-> TRUE, req |-> ZeroRequest]
    ELSE [err |-> ~StringOK(Member(data, "jsonrpc")) \/ ~StringOK(Member(data, "method")),
          req |-> [JSONRPC |-> StringOf(Member(data, "jsonrpc")),
                   ID |-> Member(data, "id"),
                   Method |-> StringOf(Member(data, "method")),
                   Params |-> Member(data, "params")]]

Error(code, message) == [Code |-> code, Message |-> message]

TextContent(text) == [Type |-> "text", Text |-> text]

\* ErrorContent(err): msg is err.Error()
ErrorContent(msg) == [t |-> "ToolCallResult", Content |-> <<TextContent(msg)>>, IsError |-> TRUE]

\* a ToolCallResult literal
ToolCallResult(content, isError) ==
    [t |-> "ToolCallResult", Content |-> content, IsError |-> isError]

\* json.Marshal of a result value: isError is omitempty
MarshalResult(r) ==
    IF r.t = "ToolCallResult"
    THEN [t |-> "ToolCallResult", content |-> r.Content,
          isError |-> IF r.IsError THEN [t |-> "true"] ELSE Absent]
    ELSE r

\* json.Marshal(resp) for Response: id, result and error are omitempty, so an
\* empty RawMessage, a nil interface and a nil pointer leave the member out
MarshalResponse(r) ==
    [jsonrpc |-> r.JSONRPC,
     id |-> IF r.ID = Absent THEN Absent ELSE r.ID,
     result |-> IF r.Result = Nil THEN Absent ELSE MarshalResult(r.Result),
     error |-> IF r.Error = Nil THEN Absent
               ELSE [code |-> r.Error.Code, message |-> r.Error.Message]]

-----------------------------------------------------------------------------
(* trakt/client.go: the Trakt client *)

\* Config values: an environment variable that is unset reads as ""
Configs == [ClientID : {"", "client-id"}, AccessToken : {"", "access-token"}]

IsConfigured(cfg) == cfg.ClientID # ""

IsAuthenticated(cfg) == cfg.AccessToken # ""

\* what the HTTP exchange of one request can come to: httpClient.Do fails (DNS,
\* timeout, reset), a response arrives with a status code and its body cannot be
\* read to the end, or a response arrives with a status code and a body
NetErr == [k |-> "neterr"]
ReadErr(code) == [k |-> "readerr", code |-> code]
Reply(code, body) == [k |-> "reply", code |-> code, body |-> body]

\* a response body: bytes that decode into the result type (v is the decoded
\* value), bytes that do not, or no bytes at all
Body(v) == [t |-> "body", v |-> v]
BadBody == [t |-> "garbage"]
NoBody == [t |-> "empty"]

\* the exchanges of one request: env.failures are the exchanges that fail, values
\* what the remote service answers a good request with
Replies(env, values) == env.failures \cup {Reply(200, Body(v)) : v \in values}

APIErrorOf(code, method, path) ==
    [kind |-> "APIError", StatusCode |-> code, Method |-> method, Path |-> path]

WrappedError(context) == [kind |-> "wrapped", context |-> context]

\* an IsAuthError that takes every client error for an authentication error
IsAuthErrorAnyClientError(e) == e.StatusCode >= 400 /\ e.StatusCode < 500

\* APIError.IsAuthError
IsAuthError(e) == e.StatusCode = 401 \/ e.StatusCode = 403

\* APIError.IsRateLimited
IsRateLimited(e) == e.StatusCode = 429

\* err.Error(): APIError.Error, or the context of a wrapped transport/JSON error
\* followed by the text of the error it wraps
ErrorText(e) ==
    IF e.kind = "APIError"
    THEN <<"trakt API error: ", e.Method, " ">> \o e.Path
             \o <<" returned status ", ToString(e.StatusCode)>>
    ELSE <<e.context, "<cause>">>

\* what Client.do comes to: the error (Nil for none), the decoded body, and the
\* number of times it called httpClient.Do
Done(err, val, attempts) == [err |-> err, val |-> val, attempts |-> attempts]

\* http.NewRequestWithContext: the URL parses unless it holds a control
\* character (net/url); the tab stands for the control characters
Buildable(path) == \A i \in DOMAIN path : path[i] # "\t"

\* a Client.do that sends the request a second time when the exchange failed
DoRetries(method, path, h, zero) ==
    IF ~Buildable(path) THEN Done(WrappedError("create request: "), zero, 0)
    ELSE IF h.k = "neterr" THEN Done(WrappedError("http request: "), zero, 2)
    ELSE IF h.k = "readerr" THEN Done(WrappedError("read response: "), zero, 1)
    ELSE IF h.code >= 400 THEN Done(APIErrorOf(h.code, method, path), zero, 1)
    ELSE IF h.body.t = "empty" THEN Done(Nil, zero, 1)
    ELSE IF h.body.t = "garbage" THEN Done(WrappedError("unmarshal response: "), zero, 1)
    ELSE Done(Nil, h.body.v, 1)

\* Client.do: one HTTP request; h is what the exchange comes to, if the request
\* is sent, and zero the zero value of the result type.  The bodies of the model
\* are structs of strings and numbers, which json.Marshal always encodes.
Do(method, path, h, zero) ==
    IF ~Buildable(path) THEN Done(WrappedError("create request: "), zero, 0)
    ELSE IF h.k = "neterr" THEN Done(WrappedError("http request: "), zero, 1)
    ELSE IF h.k = "readerr" THEN Done(WrappedError("read response: "), zero, 1)
    ELSE IF h.code >= 400 THEN Done(APIErrorOf(h.code, method, path), zero, 1)
    ELSE IF h.body.t = "empty" THEN Done(Nil, zero, 1)
    ELSE IF h.body.t = "garbage" THEN Done(WrappedError("unmarshal response: "), zero, 1)
    ELSE Done(Nil, h.body.v, 1)

\* one request a caller hands to the client, with the exchange it comes to
Call(method, path, body, h) == [method |-> method, path |-> path, body |-> body, reply |-> h]

(* trakt/types.go: the remote entities *)
ShowOf(title, year, id) == [Title |-> title, Year |-> year, IDs |-> [Trakt |-> id]]
MovieOf(title, year, id) == [Title |-> title, Year |-> year, IDs |-> [Trakt |-> id]]
EpisodeOf(season, number, title, id) ==
    [Season |-> season, Number |-> number, Title |-> title, IDs |-> [Trakt |-> id]]
ShowResult(score, show) == [Type |-> "show", Score |-> score, Show |-> show, Movie |-> Nil]
MovieResult(score, movie) == [Type |-> "movie", Score |-> score, Show |-> Nil, Movie |-> movie]
SyncOf(addedM, addedE, existM, existE) ==
    [Added |-> [Movies |-> addedM, Episodes |-> addedE],
     Existing |-> [Movies |-> existM, Episodes |-> existE]]
ZeroSync == SyncOf(0, 0, 0, 0)
ZeroEpisode == EpisodeOf(0, 0, "", 0)
DeviceCodeOf(url, userCode, expiresIn) ==
    [VerificationURL |-> url, UserCode |-> userCode, ExpiresIn |-> expiresIn]
ZeroDeviceCode == DeviceCodeOf("", "", 0)

\* url.Values.Encode of the query: a space is sent as "+"; the other queries of
\* the model hold letters only and are sent as they are
QueryEscape(query) == IF query = "dark city" THEN "dark+city" ELSE query

\* Client.Search: the request path
SearchPath(query, searchType) ==
    <<"/search/", IF searchType = "" THEN "show,movie" ELSE searchType, "?query=",
      QueryEscape(query)>>

\* Client.Search
Search(query, searchType, h) == Do("GET", SearchPath(query, searchType), h, <<>>)

\* Client.GetHistory: the request path
HistoryPath(historyType, limit) ==
    (IF historyType = "" THEN <<"/sync/history">> ELSE <<"/sync/history/", historyType>>)
        \o (IF limit > 0 THEN <<"?limit=", ToString(limit)>> ELSE <<>>)

\* Client.GetHistory
GetHistory(historyType, limit, h) == Do("GET", HistoryPath(historyType, limit), h, <<>>)

\* Client.AddToHistory
AddToHistory(item, h) == Do("POST", <<"/sync/history">>, h, ZeroSync)

\* Client.RemoveFromHistory
RemoveFromHistory(item, h) == Do("POST", <<"/sync/history/remove">>, h, ZeroSync)

\* Client.PollForToken: one request for the token of a device code
TokenOf(access, refresh) == [AccessToken |-> access, RefreshToken |-> refresh]
ZeroToken == TokenOf("", "")
PollForToken(deviceCode, h) == Do("POST", <<"/oauth/device/token">>, h, ZeroToken)

\* Client.GetDeviceCode
GetDeviceCode(h) == Do("POST", <<"/oauth/device/code">>, h, ZeroDeviceCode)

\* Client.GetEpisode: fetch one episode of a show by season and number
EpisodePath(showID, season, episode) ==
    <<"/shows/", showID, "/seasons/", ToString(season), "/episodes/", ToString(episode)>>

GetEpisode(showID, season, episode, h) ==
    Do("GET", EpisodePath(showID, season, episode), h, ZeroEpisode)

-----------------------------------------------------------------------------
(* mcp/handlers.go: the tool handlers *)

(* A handler's run is determined by its arguments, the client's configuration
   and what the remote service answers to each request.  Each handler is the set
   of the runs it can make: the ToolCallResult and error it returns and the
   requests it issued, in order.  env gives the values the remote service may
   answer with, per operation. *)
Outcome(result, err, calls) == [result |-> result, err |-> err, calls |-> calls]

\* a decoder that takes any bytes for the zero value of the struct
DecodesAnything(args, strFields, intFields) == TRUE

\* a decoding that takes missing arguments for the empty object
DecodesMissing(args, strFields, intFields) ==
    \/ args.t = "absent"
    \/ /\ ValidJSON(args)
       /\ \/ args.t = "null"
          \/ /\ args.t = "object"
             /\ \A f \in strFields : StringOK(Member(args, f))
             /\ \A f \in intFields : IntOK(Member(args, f))

\* json.Unmarshal(args, &a) succeeds for a struct with these string and int fields
Decodes(args, strFields, intFields) ==
    /\ ValidJSON(args)
    /\ \/ args.t = "null"
       \/ /\ args.t = "object"
          /\ \A f \in strFields : StringOK(Member(args, f))
          /\ \A f \in intFields : IntOK(Member(args, f))

\* the member of the decoded arguments (null decodes to the zero struct)
Field(args, k) == IF args.t = "object" THEN Member(args, k) ELSE Absent

InvalidArguments == ErrorContent(<<"invalid arguments: ", "<cause>">>)

ErrorResult(text) == ToolCallResult(<<TextContent(text)>>, TRUE)

TextResult(text) == ToolCallResult(<<TextContent(text)>>, FALSE)

NotAuthenticated ==
    ErrorResult(<<"Error: Not authenticated. Use the authenticate tool first.">>)

\* fmt's %02d
Pad2(n) == IF n >= 0 /\ n < 10 THEN "0" \o ToString(n) ELSE ToString(n)

\* an authenticate handler that asks for a device code whatever the configuration
AuthenticateHandlerAsksAnyway(args, cfg, env) ==
    {LET r == GetDeviceCode(h)
         calls == <<Call("POST", <<"/oauth/device/code">>, [client_id |-> cfg.ClientID], h)>>
     IN  IF r.err # Nil THEN Outcome(ErrorContent(ErrorText(r.err)), Nil, calls)
         ELSE Outcome(TextResult(<<"[lock] **Trakt Authentication**\n\nPlease visit: ",
                                   r.val.VerificationURL, "\nEnter code: **",
                                   r.val.UserCode, "**\n\nThe code expires in ",
                                   ToString(r.val.ExpiresIn), " seconds.">>),
                      Nil, calls)
     : h \in Replies(env, env.device)}

\* makeAuthenticateHandler
AuthenticateHandler(args, cfg, env) ==
    IF ~IsConfigured(cfg)
    THEN {Outcome(ErrorResult(<<"Error: TRAKT_CLIENT_ID and TRAKT_CLIENT_SECRET environment variables must be set">>),
                  Nil, <<>>)}
    ELSE {LET r == GetDeviceCode(h)
              calls == <<Call("POST", <<"/oauth/device/code">>, [client_id |-> cfg.ClientID], h)>>
          IN  IF r.err # Nil THEN Outcome(ErrorContent(ErrorText(r.err)), Nil, calls)
              ELSE Outcome(TextResult(<<"[lock] **Trakt Authentication**\n\nPlease visit: ",
                                        r.val.VerificationURL, "\nEnter code: **",
                                        r.val.UserCode, "**\n\nThe code expires in ",
                                        ToString(r.val.ExpiresIn), " seconds.\n\nAfter authorizing, the access token will be displayed. Set it as TRAKT_ACCESS_TOKEN environment variable.">>),
                           Nil, calls)
          : h \in Replies(env, env.device)}

RECURSIVE FormatSearch(_, _)
\* makeSearchHandler: the loop over the results, from the i-th on
FormatSearch(results, i) ==
    IF i > Len(results) THEN <<>>
    ELSE IF i - 1 >= 10
    THEN <<"\n... and ", ToString(Len(results) - 10), " more results">>
    ELSE LET r == results[i]
         IN  (IF r.Type = "show" /\ r.Show # Nil
              THEN <<"[tv] **", r.Show.Title, "** (", ToString(r.Show.Year),
                     ") - Trakt ID: ", ToString(r.Show.IDs.Trakt), "\n">>
              ELSE IF r.Type = "movie" /\ r.Movie # Nil
              THEN <<"[film] **", r.Movie.Title, "** (", ToString(r.Movie.Year),
                     ") - Trakt ID: ", ToString(r.Movie.IDs.Trakt), "\n">>
              ELSE <<>>) \o FormatSearch(results, i + 1)

\* a search handler that does not look at the error of client.Search
SearchHandlerIgnoresError(args, cfg, env) ==
    IF ~Decodes(args, {"query", "type"}, {}) THEN {Outcome(InvalidArguments, Nil, <<>>)}
    ELSE LET query == StringOf(Field(args, "query"))
             type == StringOf(Field(args, "type"))
         IN  IF query = ""
             THEN {Outcome(ErrorResult(<<"Error: query is required">>), Nil, <<>>)}
             ELSE {LET r == Search(query, type, h)
                       calls == <<Call("GET", SearchPath(query, type), Nil, h)>>
                   IN  IF Len(r.val) = 0
                       THEN Outcome(TextResult(<<"No results found", " for: ", query>>), Nil, calls)
                       ELSE Outcome(TextResult(FormatSearch(r.val, 1)), Nil, calls)
                   : h \in Replies(env, env.search)}

\* a search handler that reports the query as it was sent, not as it was given
SearchHandlerEchoesEscaped(args, cfg, env) ==
    IF ~Decodes(args, {"query", "type"}, {}) THEN {Outcome(InvalidArguments, Nil, <<>>)}
    ELSE LET query == StringOf(Field(args, "query"))
             type == StringOf(Field(args, "type"))
         IN  IF query = ""
             THEN {Outcome(ErrorResult(<<"Error: query is required">>), Nil, <<>>)}
             ELSE {LET r == Search(query, type, h)
                       calls == <<Call("GET", SearchPath(query, type), Nil, h)>>
                   IN  IF r.err # Nil THEN Outcome(ErrorContent(ErrorText(r.err)), Nil, calls)
                       ELSE IF Len(r.val) = 0
                       THEN Outcome(TextResult(<<"No results found", " for: ",
                                                 QueryEscape(query)>>), Nil, calls)
                       ELSE Outcome(TextResult(FormatSearch(r.val, 1)), Nil, calls)
                   : h \in Replies(env, env.search)}

\* makeSearchHandler
SearchHandler(args, cfg, env) ==
    IF ~Decodes(args, {"query", "type"}, {}) THEN {Outcome(InvalidArguments, Nil, <<>>)}
    ELSE LET query == StringOf(Field(args, "query"))
             type == StringOf(Field(args, "type"))
         IN  IF query = ""
             THEN {Outcome(ErrorResult(<<"Error: query is required">>), Nil, <<>>)}
             ELSE {LET r == Search(query, type, h)
                       calls == <<Call("GET", SearchPath(query, type), Nil, h)>>
                   IN  IF r.err # Nil THEN Outcome(ErrorContent(ErrorText(r.err)), Nil, calls)
                       ELSE IF Len(r.val) = 0
                       THEN Outcome(TextResult(<<"No results found", " for: ", query>>), Nil, calls)
                       ELSE Outcome(TextResult(FormatSearch(r.val, 1)), Nil, calls)
                   : h \in Replies(env, env.search)}

RECURSIVE FormatHistoryNewestLast(_, _)
\* a rendering of the history that puts each item after the ones that follow it
FormatHistoryNewestLast(history, i) ==
    IF i > Len(history) THEN <<>>
    ELSE LET h == history[i]
         IN  FormatHistoryNewestLast(history, i + 1)
                \o (IF h.Type = "episode" /\ h.Show # Nil /\ h.Episode # Nil
                    THEN <<"[tv] ", h.Show.Title, " S", Pad2(h.Episode.Season), "E",
                           Pad2(h.Episode.Number), " - ", h.Episode.Title, " (",
                           h.WatchedAt.date, ")\n">>
                    ELSE IF h.Type = "movie" /\ h.Movie # Nil
                    THEN <<"[film] ", h.Movie.Title, " (", h.WatchedAt.date, ")\n">>
                    ELSE <<>>)

RECURSIVE FormatHistory(_, _)
\* makeGetHistoryHandler: the loop over the items, from the i-th on
FormatHistory(history, i) ==
    IF i > Len(history) THEN <<>>
    ELSE LET h == history[i]
         IN  (IF h.Type = "episode" /\ h.Show # Nil /\ h.Episode # Nil
              THEN <<"[tv] ", h.Show.Title, " S", Pad2(h.Episode.Season), "E",
                     Pad2(h.Episode.Number), " - ", h.Episode.Title, " (",
                     h.WatchedAt.date, ")\n">>
              ELSE IF h.Type = "movie" /\ h.Movie # Nil
              THEN <<"[film] ", h.Movie.Title, " (", h.WatchedAt.date, ")\n">>
              ELSE <<>>) \o FormatHistory(history, i + 1)

\* a get_history handler that decodes its arguments before it looks at the token
GetHistoryHandlerDecodesFirst(args, cfg, env) ==
    IF ~Decodes(args, {"type"}, {"limit"}) THEN {Outcome(InvalidArguments, Nil, <<>>)}
    ELSE IF ~IsAuthenticated(cfg) THEN {Outcome(NotAuthenticated, Nil, <<>>)}
    ELSE LET type == StringOf(Field(args, "type"))
             given == IntOf(Field(args, "limit"))
             limit == IF given <= 0 THEN 10 ELSE given
         IN  {LET r == GetHistory(type, limit, h)
                  calls == <<Call("GET", HistoryPath(type, limit), Nil, h)>>
              IN  IF r.err # Nil THEN Outcome(ErrorContent(ErrorText(r.err)), Nil, calls)
                  ELSE IF Len(r.val) = 0
                  THEN Outcome(TextResult(<<"No watch history found.">>), Nil, calls)
                  ELSE Outcome(TextResult(FormatHistory(r.val, 1)), Nil, calls)
              : h \in Replies(env, env.history)}

\* makeGetHistoryHandler
GetHistoryHandler(args, cfg, env) ==
    IF ~IsAuthenticated(cfg) THEN {Outcome(NotAuthenticated, Nil, <<>>)}
    ELSE IF ~Decodes(args, {"type"}, {"limit"}) THEN {Outcome(InvalidArguments, Nil, <<>>)}
    ELSE LET type == StringOf(Field(args, "type"))
             given == IntOf(Field(args, "limit"))
             limit == IF given <= 0 THEN 10 ELSE given
         IN  {LET r == GetHistory(type, limit, h)
                  calls == <<Call("GET", HistoryPath(type, limit), Nil, h)>>
              IN  IF r.err # Nil THEN Outcome(ErrorContent(ErrorText(r.err)), Nil, calls)
                  ELSE IF Len(r.val) = 0
                  THEN Outcome(TextResult(<<"No watch history found.">>), Nil, calls)
                  ELSE Outcome(TextResult(FormatHistory(r.val, 1)), Nil, calls)
              : h \in Replies(env, env.history)}

\* the score at or above which the top result is trusted (logEpisode, logMovie)
HighConfidence == 1000

\* the entity of a search result on the episode path (Show) or the movie path (Movie)
Entity(r, kind) == IF kind = "show" THEN r.Show ELSE r.Movie

RECURSIVE Candidates(_, _, _)
\* logEpisode / logMovie: the loop listing the candidates, from the i-th on
Candidates(results, i, kind) ==
    IF i > Len(results) THEN <<>>
    ELSE IF i - 1 >= 5 THEN <<"... and ", ToString(Len(results) - 5), " more\n">>
    ELSE LET e == Entity(results[i], kind)
         IN  (IF e # Nil
              THEN <<"* ", e.Title, " (", ToString(e.Year), ") - Trakt ID: ",
                     ToString(e.IDs.Trakt), "\n">>
              ELSE <<>>) \o Candidates(results, i + 1, kind)

\* an ambiguity check that looks at the top score alone
AmbiguousByScoreAlone(results) == results[1].Score < HighConfidence

\* logEpisode / logMovie: the check for ambiguous results
Ambiguous(results) == Len(results) > 1 /\ results[1].Score < HighConfidence

\* logEpisode: the part after the episode was found (sync and rendering)
SyncEpisode(show, ep, season, episode, watchedAt, env, before) ==
    {LET item == [WatchedAt |-> watchedAt, Episodes |-> <<[IDs |-> [Trakt |-> ep.IDs.Trakt]]>>]
         r == AddToHistory(item, h)
         calls == before \o <<Call("POST", <<"/sync/history">>, item, h)>>
     IN  IF r.err # Nil THEN Outcome(ErrorContent(ErrorText(r.err)), Nil, calls)
         ELSE IF r.val.Added.Episodes > 0
         THEN Outcome(TextResult(<<"[ok] ", "Logged", ": **", show.Title, "** S", Pad2(season), "E",
                                   Pad2(episode), " - ", ep.Title>>), Nil, calls)
         ELSE IF r.val.Existing.Episodes > 0
         THEN Outcome(TextResult(<<"[info] ", "Already watched", ": **", show.Title, "** S",
                                   Pad2(season), "E", Pad2(episode), " - ", ep.Title>>),
                      Nil, calls)
         ELSE Outcome(TextResult(<<"[warn] Episode was not added (unknown reason)">>), Nil, calls)
     : h \in Replies(env, env.sync)}

\* an episode lookup whose failure does not stop the sync
LookupEpisodeSyncsAnyway(show, season, episode, watchedAt, env, before) ==
    UNION {LET id == ToString(show.IDs.Trakt)
               r == GetEpisode(id, season, episode, h)
               calls == before \o <<Call("GET", EpisodePath(id, season, episode), Nil, h)>>
           IN  SyncEpisode(show, r.val, season, episode, watchedAt, env, calls)
           : h \in Replies(env, env.episode)}

\* logEpisode: the part after the show was resolved (episode lookup)
LookupEpisode(show, season, episode, watchedAt, env, before) ==
    UNION {LET id == ToString(show.IDs.Trakt)
               r == GetEpisode(id, season, episode, h)
               calls == before \o <<Call("GET", EpisodePath(id, season, episode), Nil, h)>>
           IN  IF r.err # Nil
               THEN {Outcome(ErrorResult(<<"Episode S", Pad2(season), "E", Pad2(episode),
                                           " not found for ", show.Title>>), Nil, calls)}
               ELSE SyncEpisode(show, r.val, season, episode, watchedAt, env, calls)
           : h \in Replies(env, env.episode)}

\* a logEpisode that takes season 0 for invalid
LogEpisodeRejectsSpecials(showName, season, episode, watchedAt, env) ==
    IF showName = ""
    THEN {Outcome(ErrorResult(<<"Error: showName is required for episodes">>), Nil, <<>>)}
    ELSE IF season <= 0 \/ episode <= 0
    THEN {Outcome(ErrorResult(<<"Error: season must be >= 0 and episode must be positive">>),
                  Nil, <<>>)}
    ELSE UNION {LET r == Search(showName, "show", h)
                    calls == <<Call("GET", SearchPath(showName, "show"), Nil, h)>>
                IN  IF r.err # Nil THEN {Outcome(ErrorContent(ErrorText(r.err)), Nil, calls)}
                    ELSE IF Len(r.val) = 0 \/ r.val[1].Show = Nil
                    THEN {Outcome(ErrorResult(<<"No show found for: ", showName>>), Nil, calls)}
                    ELSE IF Ambiguous(r.val)
                    THEN {Outcome(ErrorResult(<<"Multiple shows found", " for '", showName,
                                                "'. Please be more specific or use the year:\n">>
                                              \o Candidates(r.val, 1, "show")), Nil, calls)}
                    ELSE LookupEpisode(r.val[1].Show, season, episode, watchedAt, env, calls)
                : h \in Replies(env, env.search)}

\* logEpisode
LogEpisode(showName, season, episode, watchedAt, env) ==
    IF showName = ""
    THEN {Outcome(ErrorResult(<<"Error: showName is required for episodes">>), Nil, <<>>)}
    ELSE IF season < 0 \/ episode <= 0
    THEN {Outcome(ErrorResult(<<"Error: season must be >= 0 and episode must be positive">>),
                  Nil, <<>>)}
    ELSE UNION {LET r == Search(showName, "show", h)
                    calls == <<Call("GET", SearchPath(showName, "show"), Nil, h)>>
                IN  IF r.err # Nil THEN {Outcome(ErrorContent(ErrorText(r.err)), Nil, calls)}
                    ELSE IF Len(r.val) = 0 \/ r.val[1].Show = Nil
                    THEN {Outcome(ErrorResult(<<"No show found for: ", showName>>), Nil, calls)}
                    ELSE IF Ambiguous(r.val)
                    THEN {Outcome(ErrorResult(<<"Multiple shows found", " for '", showName,
                                                "'. Please be more specific or use the year:\n">>
                                              \o Candidates(r.val, 1, "show")), Nil, calls)}
                    ELSE LookupEpisode(r.val[1].Show, season, episode, watchedAt, env, calls)
                : h \in Replies(env, env.search)}

\* a rendering of the movie sync that looks at the existing count first
SyncMovieExistingFirst(movie, watchedAt, env, before) ==
    {LET item == [WatchedAt |-> watchedAt, Movies |-> <<[IDs |-> [Trakt |-> movie.IDs.Trakt]]>>]
         r == AddToHistory(item, h)
         calls == before \o <<Call("POST", <<"/sync/history">>, item, h)>>
     IN  IF r.err # Nil THEN Outcome(ErrorContent(ErrorText(r.err)), Nil, calls)
         ELSE IF r.val.Existing.Movies > 0
         THEN Outcome(TextResult(<<"[info] ", "Already watched", ": **", movie.Title, "** (",
                                   ToString(movie.Year), ")">>), Nil, calls)
         ELSE IF r.val.Added.Movies > 0
         THEN Outcome(TextResult(<<"[ok] ", "Logged", ": **", movie.Title, "** (",
                                   ToString(movie.Year), ")">>), Nil, calls)
         ELSE Outcome(TextResult(<<"[warn] Movie was not added (unknown reason)">>), Nil, calls)
     : h \in Replies(env, env.sync)}

\* logMovie: the part after the movie was resolved (sync and rendering)
SyncMovie(movie, watchedAt, env, before) ==
    {LET item == [WatchedAt |-> watchedAt, Movies |-> <<[IDs |-> [Trakt |-> movie.IDs.Trakt]]>>]
         r == AddToHistory(item, h)
         calls == before \o <<Call("POST", <<"/sync/history">>, item, h)>>
     IN  IF r.err # Nil THEN Outcome(ErrorContent(ErrorText(r.err)), Nil, calls)
         ELSE IF r.val.Added.Movies > 0
         THEN Outcome(TextResult(<<"[ok] ", "Logged", ": **", movie.Title, "** (",
                                   ToString(movie.Year), ")">>), Nil, calls)
         ELSE IF r.val.Existing.Movies > 0
         THEN Outcome(TextResult(<<"[info] ", "Already watched", ": **", movie.Title, "** (",
                                   ToString(movie.Year), ")">>), Nil, calls)
         ELSE Outcome(TextResult(<<"[warn] Movie was not added (unknown reason)">>), Nil, calls)
     : h \in Replies(env, env.sync)}

\* a logMovie that searches whatever name it is given, the empty one included
LogMovieSearchesBlank(movieName, watchedAt, env) ==
    UNION {LET r == Search(movieName, "movie", h)
               calls == <<Call("GET", SearchPath(movieName, "movie"), Nil, h)>>
           IN  IF r.err # Nil THEN {Outcome(ErrorContent(ErrorText(r.err)), Nil, calls)}
               ELSE IF Len(r.val) = 0 \/ r.val[1].Movie = Nil
               THEN {Outcome(ErrorResult(<<"No movie found for: ", movieName>>), Nil, calls)}
               ELSE IF Ambiguous(r.val)
               THEN {Outcome(ErrorResult(<<"Multiple movies found", " for '", movieName,
                                           "'. Please be more specific or use the year:\n">>
                                         \o Candidates(r.val, 1, "movie")), Nil, calls)}
               ELSE SyncMovie(r.val[1].Movie, watchedAt, env, calls)
           : h \in Replies(env, env.search)}

\* logMovie
LogMovie(movieName, watchedAt, env) ==
    IF movieName = ""
    THEN {Outcome(ErrorResult(<<"Error: movieName is required for movies">>), Nil, <<>>)}
    ELSE UNION {LET r == Search(movieName, "movie", h)
                    calls == <<Call("GET", SearchPath(movieName, "movie"), Nil, h)>>
                IN  IF r.err # Nil THEN {Outcome(ErrorContent(ErrorText(r.err)), Nil, calls)}
                    ELSE IF Len(r.val) = 0 \/ r.val[1].Movie = Nil
                    THEN {Outcome(ErrorResult(<<"No movie found for: ", movieName>>), Nil, calls)}
                    ELSE IF Ambiguous(r.val)
                    THEN {Outcome(ErrorResult(<<"Multiple movies found", " for '", movieName,
                                                "'. Please be more specific or use the year:\n">>
                                              \o Candidates(r.val, 1, "movie")), Nil, calls)}
                    ELSE SyncMovie(r.val[1].Movie, watchedAt, env, calls)
                : h \in Replies(env, env.search)}

\* a log_watch handler that takes every type but "episode" for "movie"
LogWatchHandlerDefaultsToMovie(args, cfg, env) ==
    IF ~IsAuthenticated(cfg) THEN {Outcome(NotAuthenticated, Nil, <<>>)}
    ELSE IF ~Decodes(args, {"type", "showName", "movieName", "watchedAt"}, {"season", "episode"})
    THEN {Outcome(InvalidArguments, Nil, <<>>)}
    ELSE LET type == StringOf(Field(args, "type"))
             watchedAt == StringOf(Field(args, "watchedAt"))
         IN  IF type = "episode"
             THEN LogEpisode(StringOf(Field(args, "showName")), IntOf(Field(args, "season")),
                             IntOf(Field(args, "episode")), watchedAt, env)
             ELSE LogMovie(StringOf(Field(args, "movieName")), watchedAt, env)

\* makeLogWatchHandler
LogWatchHandler(args, cfg, env) ==
    IF ~IsAuthenticated(cfg) THEN {Outcome(NotAuthenticated, Nil, <<>>)}
    ELSE IF ~Decodes(args, {"type", "showName", "movieName", "watchedAt"}, {"season", "episode"})
    THEN {Outcome(InvalidArguments, Nil, <<>>)}
    ELSE LET type == StringOf(Field(args, "type"))
             watchedAt == StringOf(Field(args, "watchedAt"))
         IN  IF type = "episode"
             THEN LogEpisode(StringOf(Field(args, "showName")), IntOf(Field(args, "season")),
                             IntOf(Field(args, "episode")), watchedAt, env)
             ELSE IF type = "movie"
             THEN LogMovie(StringOf(Field(args, "movieName")), watchedAt, env)
             ELSE {Outcome(ErrorResult(<<"Error: type must be '", "episode", "' or '", "movie", "'">>), Nil, <<>>)}

\* the error value a handler returns; text is its Error()
ErrorValue(text) == [t |-> "error", text |-> text]

\* handlers registered by a program embedding the server (ToolHandler): the test
\* tool of the server's tests, which returns "ok", and a tool whose handler
\* returns an error
TestToolHandler(args, cfg, env) ==
    {Outcome(TextResult(<<"ok">>), Nil, <<>>)}

FailingHandler(args, cfg, env) ==
    {Outcome(ToolCallResult(<<>>, FALSE), ErrorValue(<<"tool failed">>), <<>>)}

\* calling the ToolHandler value stored in the registry
RunHandler(handler, args, cfg, env) ==
    CASE handler = "authenticate" -> AuthenticateHandler(args, cfg, env)
      [] handler = "search_show" -> SearchHandler(args, cfg, env)
      [] handler = "get_history" -> GetHistoryHandler(args, cfg, env)
      [] handler = "log_watch" -> LogWatchHandler(args, cfg, env)
      [] handler = "test_tool" -> TestToolHandler(args, cfg, env)
      [] handler = "failing" -> FailingHandler(args, cfg, env)

-----------------------------------------------------------------------------
(* mcp/server.go: the server *)

\* the Tool values RegisterTools registers: name and required arguments
TraktTools ==
    [authenticate |-> [Name |-> "authenticate", Required |-> {}],
     search_show |-> [Name |-> "search_show", Required |-> {"query"}],
     get_history |-> [Name |-> "get_history", Required |-> {}],
     log_watch |-> [Name |-> "log_watch", Required |-> {"type"}]]

\* a map with key k set to v
MapSet(m, k, v) == [x \in DOMAIN m \cup {k} |-> IF x = k THEN v ELSE m[x]]

\* every order a range over the map can visit its values in
Orders(m) ==
    {s \in [1..Cardinality(DOMAIN m) -> DOMAIN m] : \A i, j \in DOMAIN s : i # j => s[i] # s[j]}

\* Server.handleInitialize: json.Unmarshal(params, &p) succeeds
InitializeParamsOK(params) ==
    /\ ValidJSON(params)
    /\ \/ params.t = "null"
       \/ /\ params.t = "object"
          /\ StringOK(Member(params, "protocolVersion"))
          /\ StructOK(Member(params, "capabilities"))
          /\ StructOK(Member(params, "clientInfo"))
          /\ Member(params, "clientInfo").t = "object" =>
                /\ StringOK(Member(Member(params, "clientInfo"), "name"))
                /\ StringOK(Member(Member(params, "clientInfo"), "version"))

InitializeResult ==
    [t |-> "InitializeResult", ProtocolVersion |-> ProtocolVersion,
     Capabilities |-> [Tools |-> [ListChanged |-> FALSE]],
     ServerInfo |-> [Name |-> ServerName, Version |-> ServerVersion]]

(* The method handlers.  Each is the set of the runs it can make on the server
   srv = [tools, handlers, initialized, config]: the result and *Error it returns,
   the value it leaves in Server.initialized and the tool handler it invoked. *)
NoCall == [t |-> "none"]
Invocation(name, args, o) ==
    [t |-> "call", name |-> name, args |-> args, result |-> o.result, err |-> o.err,
     calls |-> o.calls]
Handled(result, error, init, call) ==
    [result |-> result, error |-> error, initialized |-> init, invoked |-> call]

\* a handleInitialize that sets the flag before it decodes the params
HandleInitializeSetsFlagFirst(params, srv) ==
    IF ~InitializeParamsOK(params)
    THEN {Handled(Nil, Error(InvalidParams, <<"Invalid initialize params">>), TRUE, NoCall)}
    ELSE {Handled(InitializeResult, Nil, TRUE, NoCall)}

\* a handleInitialize that takes a failed initialize for the end of the session
HandleInitializeClearsOnFailure(params, srv) ==
    IF ~InitializeParamsOK(params)
    THEN {Handled(Nil, Error(InvalidParams, <<"Invalid initialize params">>), FALSE, NoCall)}
    ELSE {Handled(InitializeResult, Nil, TRUE, NoCall)}

\* Server.handleInitialize
HandleInitialize(params, srv) ==
    IF ~InitializeParamsOK(params)
    THEN {Handled(Nil, Error(InvalidParams, <<"Invalid initialize params">>),
                  srv.initialized, NoCall)}
    ELSE {Handled(InitializeResult, Nil, TRUE, NoCall)}

\* a handleToolsList whose loop stops one tool short
HandleToolsListStopsShort(srv) ==
    {Handled([t |-> "ToolsListResult", Tools |-> [i \in 1..(Len(s) - 1) |-> srv.tools[s[i]]]],
             Nil, srv.initialized, NoCall) : s \in Orders(srv.tools)}

\* Server.handleToolsList
HandleToolsList(srv) ==
    {Handled([t |-> "ToolsListResult", Tools |-> [i \in DOMAIN s |-> srv.tools[s[i]]]],
             Nil, srv.initialized, NoCall) : s \in Orders(srv.tools)}

\* Server.handleToolsCall: json.Unmarshal(params, &p) succeeds
ToolCallParamsOK(params) ==
    /\ ValidJSON(params)
    /\ \/ params.t = "null"
       \/ params.t = "object" /\ StringOK(Member(params, "name"))

\* a handleToolsCall that reports an unknown tool as a failed tool call
UnknownToolAsResult(name, srv) ==
    {Handled(ToolCallResult(<<TextContent(<<"Unknown tool: ", name>>)>>, TRUE), Nil,
             srv.initialized, NoCall)}

\* Server.handleToolsCall: no handler is registered under the name
UnknownTool(name, srv) ==
    {Handled(Nil, Error(InvalidParams, <<"Unknown tool: ", name>>), srv.initialized, NoCall)}

\* a handleToolsCall that reports a handler's error as a JSON-RPC error
ToolOutcomeAsProtocolError(name, args, o, srv) ==
    IF o.err # Nil
    THEN Handled(Nil, Error(InternalError, o.err.text), srv.initialized,
                 Invocation(name, args, o))
    ELSE Handled(o.result, Nil, srv.initialized, Invocation(name, args, o))

\* Server.handleToolsCall: what it returns after the handler has returned o
ToolOutcome(name, args, o, srv) ==
    Handled(IF o.err # Nil THEN ToolCallResult(<<TextContent(o.err.text)>>, TRUE)
            ELSE o.result,
            Nil, srv.initialized, Invocation(name, args, o))

\* a handleToolsCall that refuses every call made before initialize
HandleToolsCallGated(params, srv, env) ==
    IF ~ToolCallParamsOK(params)
    THEN {Handled(Nil, Error(InvalidParams, <<"Invalid tools/call params">>),
                  srv.initialized, NoCall)}
    ELSE IF ~srv.initialized
    THEN {Handled(Nil, Error(InternalError, <<"Server not initialized">>),
                  srv.initialized, NoCall)}
    ELSE LET name == StringOf(Field(params, "name"))
             args == Field(params, "arguments")
         IN  IF name \notin DOMAIN srv.handlers
             THEN UnknownTool(name, srv)
             ELSE {ToolOutcome(name, args, o, srv)
                   : o \in RunHandler(srv.handlers[name], args, srv.config, env)}

\* Server.handleToolsCall
HandleToolsCall(params, srv, env) ==
    IF ~ToolCallParamsOK(params)
    THEN {Handled(Nil, Error(InvalidParams, <<"Invalid tools/call params">>),
                  srv.initialized, NoCall)}
    ELSE LET name == StringOf(Field(params, "name"))
             args == Field(params, "arguments")
         IN  IF name \notin DOMAIN srv.handlers
             THEN UnknownTool(name, srv)
             ELSE {ToolOutcome(name, args, o, srv)
                   : o \in RunHandler(srv.handlers[name], args, srv.config, env)}

\* a dispatch that takes a method it does not know for a notification
DispatchSkipsUnknown(method, params, srv, env) ==
    CASE method = "initialize" -> HandleInitialize(params, srv)
      [] method = "tools/list" -> HandleToolsList(srv)
      [] method = "tools/call" -> HandleToolsCall(params, srv, env)
      [] OTHER -> {Handled(Nil, Nil, srv.initialized, NoCall)}

\* Server.dispatch
Dispatch(method, params, srv, env) ==
    CASE method = "initialize" -> HandleInitialize(params, srv)
      [] method = "initialized" -> {Handled(Nil, Nil, srv.initialized, NoCall)}
      [] method = "tools/list" -> HandleToolsList(srv)
      [] method = "tools/call" -> HandleToolsCall(params, srv, env)
      [] OTHER -> {Handled(Nil, Error(MethodNotFound, <<"Method not found: ", method>>),
                           srv.initialized, NoCall)}

Response(id, result, error) ==
    [JSONRPC |-> "2.0", ID |-> id, Result |-> result, Error |-> error]

\* a handleMessage that echoes what was decoded of the id before the failure
ParseFailureEchoesId(req) == Response(req.ID, Nil, Error(ParseError, <<"Parse error">>))

\* Server.handleMessage: the response to a line that json.Unmarshal rejects
ParseFailure(req) == Response(Absent, Nil, Error(ParseError, <<"Parse error">>))

\* Server.handleMessage: the response to an envelope whose version is not "2.0"
VersionFailure(req) ==
    Response(req.ID, Nil, Error(InvalidRequest, <<"Invalid JSON-RPC version">>))

\* a handleMessage that leaves a null id out of the response
AnswerDropsNullId(req, result, error) ==
    LET id == IF req.ID = JNull THEN Absent ELSE req.ID
    IN  IF error # Nil THEN Response(id, Nil, error) ELSE Response(id, result, Nil)

\* Server.handleMessage: the response to a dispatched request
Answer(req, result, error) ==
    IF error # Nil THEN Response(req.ID, Nil, error) ELSE Response(req.ID, result, Nil)

\* a handleMessage that dispatches the method before it looks at the version
HandleMessageChecksVersionLast(data, srv, env) ==
    LET u == UnmarshalRequest(data)
        req == u.req
    IN  IF u.err
        THEN {[resp |-> ParseFailure(req), initialized |-> srv.initialized, invoked |-> NoCall]}
        ELSE {[resp |-> IF req.JSONRPC # "2.0" THEN VersionFailure(req)
                        ELSE Answer(req, d.result, d.error),
               initialized |-> d.initialized, invoked |-> d.invoked]
              : d \in Dispatch(req.Method, req.Params, srv, env)}

\* Server.handleMessage: the runs it can make on the line data; resp is the
\* *Response it returns
HandleMessage(data, srv, env) ==
    LET u == UnmarshalRequest(data)
        req == u.req
    IN  IF u.err
        THEN {[resp |-> ParseFailure(req), initialized |-> srv.initialized, invoked |-> NoCall]}
        ELSE IF req.JSONRPC # "2.0"
        THEN {[resp |-> VersionFailure(req), initialized |-> srv.initialized,
               invoked |-> NoCall]}
        ELSE {[resp |-> Answer(req, d.result, d.error),
               initialized |-> d.initialized, invoked |-> d.invoked]
              : d \in Dispatch(req.Method, req.Params, srv, env)}

-----------------------------------------------------------------------------------------------------------------------------------------------------
(* The input lines and the remote service of the dispatcher's runs *)

\* a JSON object with the members of all that are present
ObjectOf(all) == JObj([k \in {x \in DOMAIN all : all[x] # Absent} |-> all[k]])

Envelope(version, id, method, params) ==
    ObjectOf([jsonrpc |-> version, id |-> id, method |-> method, params |-> params])

Request(id, method, params) == Envelope(JStr("2.0"), id, JStr(method), params)

ToolCall(name, arguments) == ObjectOf([name |-> JStr(name), arguments |-> arguments])

Ids == {Absent, JNull, JNum(1), JStr("req-1")}

ClientParams ==
    JObj([protocolVersion |-> JStr("2024-11-05"), capabilities |-> EmptyObj,
          clientInfo |-> JObj([name |-> JStr("test"), version |-> JStr("1.0")])])

BadParams == {Absent, JStr("x"), JObj([protocolVersion |-> JNum(1)]),
              JObj([clientInfo |-> JObj([name |-> JNum(1)])])}

\* lines that fail to parse as a request envelope
Unparsable ==
    {Garbage, JNum(5), Envelope(JNum(2), JNum(1), JStr("initialize"), ClientParams),
     Envelope(JStr("2.0"), JStr("req-1"), JNum(7), Absent)}

\* parsed envelopes whose protocol tag is not "2.0"
WrongVersion ==
    {Envelope(JStr("1.0"), id, JStr("tools/list"), Absent) : id \in Ids}
    \cup {Envelope(Absent, JNum(1), JStr("initialize"), ClientParams),
          Envelope(JStr("1.0"), Absent, JStr("initialized"), Absent),
          Envelope(JStr("1.0"), JNum(1), JStr("tools/call"), ToolCall("test_tool", EmptyObj)),
          JNull}

\* the lines a test program feeds the server
ProtocolLines ==
    {Blank} \cup Unparsable \cup WrongVersion
    \cup {Request(id, "initialize", ClientParams) : id \in {Absent, JNum(1)}}
    \cup {Request(JNum(1), "initialize", p) : p \in BadParams \cup {JNull}}
    \cup {Request(id, "initialized", Absent) : id \in Ids}
    \cup {Request(Absent, "initialized", EmptyObj), Request(Absent, "initialized", JStr("x"))}
    \cup {Request(JNum(1), "tools/list", Absent)}
    \cup {Request(JStr("req-1"), "ping", Absent)}
    \cup {Envelope(JStr("2.0"), JNum(1), Absent, Absent)}
    \cup {Request(JNum(1), "tools/call", p) :
              p \in {Absent, JStr("x"), JNull, JObj([name |-> JNum(1)]),
                     ToolCall("nope", EmptyObj), ToolCall("test_tool", Absent)}}
    \cup {Request(id, "tools/call", ToolCall("test_tool", EmptyObj)) : id \in Ids}
    \cup {Request(JNum(1), "tools/call", ToolCall("failing", EmptyObj))}

\* the lines the host feeds the Trakt server (main)
TraktLines ==
    {Blank, Garbage,
     Request(JNum(1), "initialize", ClientParams),
     Request(Absent, "initialized", Absent),
     Request(JNum(1), "tools/list", Absent),
     Envelope(JStr("1.0"), JNum(1), JStr("tools/call"), ToolCall("authenticate", EmptyObj))}
    \cup {Request(JNum(1), "tools/call", p) :
              p \in {ToolCall("nope", EmptyObj),
                     ToolCall("authenticate", Absent), ToolCall("authenticate", EmptyObj),
                     ToolCall("search_show", Absent),
                     ToolCall("search_show", JObj([query |-> JStr("heat")])),
                     ToolCall("get_history", Absent), ToolCall("get_history", EmptyObj),
                     ToolCall("log_watch", Absent),
                     ToolCall("log_watch", JObj([type |-> JStr("movie"),
                                                 movieName |-> JStr("heat")]))}}

\* the input lines of a program with the handler map hs
Lines(hs) == IF "authenticate" \in DOMAIN hs THEN TraktLines ELSE ProtocolLines

\* what the remote service answers in the dispatcher's runs
DispatchEnv ==
    [failures |-> {NetErr, Reply(500, BadBody)},
     search |-> {<<>>, <<MovieResult(1000, MovieOf("Heat", 1995, 77))>>},
     history |-> {<<>>},
     episode |-> {EpisodeOf(1, 1, "Pilot", 5)},
     sync |-> {SyncOf(1, 0, 0, 0)},
     device |-> {DeviceCodeOf("https://trakt.tv/activate", "ABCD1234", 600)}]

-----------------------------------------------------------------------------
(* The dispatcher's runs: a program constructs the server (and, in main, the
   client), registers its tools and calls RunWithIO *)

\* the Config of a program that constructs no client
NoConfig == [ClientID |-> "", AccessToken |-> ""]

\* the zero sync.RWMutex of a new Server: no writer, no readers, no Lock call
\* waiting
Unlocked == [writer |-> "none", readers |-> {}, pending |-> {}]

Init ==
    /\ pc = "setup"
    /\ tools = <<>>
    /\ handlers = <<>>
    /\ initialized = FALSE
    /\ config = NoConfig
    /\ cancelled = FALSE
    /\ line = Blank
    /\ lineNo = 0
    /\ resp = Nil
    /\ invoked = NoCall
    /\ out = <<>>
    /\ ret = "running"
    /\ mu = Unlocked
    /\ goroutines = <<>>

\* Server.RegisterTool on the maps ts and hs: under the write lock, both get the
\* entry
RegisterTool(ts, hs, tool, handler) ==
    [tools |-> MapSet(ts, tool.Name, tool), handlers |-> MapSet(hs, tool.Name, handler)]

\* a test program registers its tools (server_test.go)
RegisterTestTools ==
    /\ UNCHANGED <<mu, goroutines>>
    /\ pc = "setup"
    /\ DOMAIN tools = {}
    /\ LET r1 == RegisterTool(tools, handlers, [Name |-> "test_tool", Required |-> {}],
                              "test_tool")
           r2 == RegisterTool(r1.tools, r1.handlers, [Name |-> "failing", Required |-> {}],
                              "failing")
       IN  tools' = r2.tools /\ handlers' = r2.handlers
    /\ UNCHANGED <<pc, initialized, config, cancelled, line, lineNo, resp, invoked, out, ret>>

RECURSIVE RegisterAll(_, _, _)
\* RegisterTools: the Trakt tools names, each through RegisterTool
RegisterAll(ts, hs, names) ==
    IF names = {} THEN [tools |-> ts, handlers |-> hs]
    ELSE LET n == CHOOSE x \in names : TRUE
             r == RegisterTool(ts, hs, TraktTools[n], n)
         IN  RegisterAll(r.tools, r.handlers, names \ {n})

\* main: the client is constructed from the environment, and RegisterTools
\* registers the four Trakt tools with it
RegisterTools ==
    /\ UNCHANGED <<mu, goroutines>>
    /\ pc = "setup"
    /\ DOMAIN tools = {}
    /\ config' \in Configs
    /\ LET r == RegisterAll(tools, handlers, DOMAIN TraktTools)
       IN  tools' = r.tools /\ handlers' = r.handlers
    /\ UNCHANGED <<pc, initialized, cancelled, line, lineNo, resp, invoked, out, ret>>

\* Server.RunWithIO is called
Run ==
    /\ UNCHANGED <<mu, goroutines>>
    /\ pc = "setup"
    /\ pc' = "scan"
    /\ UNCHANGED <<tools, handlers, initialized, config, cancelled, line, lineNo, resp,
                   invoked, out, ret>>

\* the context is cancelled (main: on SIGINT/SIGTERM)
Cancel ==
    /\ UNCHANGED <<mu, goroutines>>
    /\ pc \in {"scan", "handle", "write"}
    /\ ~cancelled
    /\ cancelled' = TRUE
    /\ UNCHANGED <<pc, tools, handlers, initialized, config, line, lineNo, resp, invoked,
                   out, ret>>

\* a RunWithIO without the check of the context
ReadLineIgnoresCancel ==
    /\ UNCHANGED <<mu, goroutines>>
    /\ pc = "scan"
    /\ lineNo < MaxLines
    /\ \E l \in Lines(handlers) :
          /\ lineNo' = lineNo + 1
          /\ IF l = Blank
             THEN pc' = "scan" /\ UNCHANGED <<ret, line>>
             ELSE pc' = "handle" /\ line' = l /\ UNCHANGED ret
    /\ UNCHANGED <<tools, handlers, initialized, config, cancelled, resp, invoked, out>>

\* a RunWithIO that hands a line of length 0 to handleMessage like any other
ReadLineHandlesBlank ==
    /\ UNCHANGED <<mu, goroutines>>
    /\ pc = "scan"
    /\ lineNo < MaxLines
    /\ \E l \in Lines(handlers) :
          /\ lineNo' = lineNo + 1
          /\ IF cancelled
             THEN pc' = "done" /\ ret' = "ctx.Err" /\ UNCHANGED line
             ELSE pc' = "handle" /\ line' = l /\ UNCHANGED ret
    /\ UNCHANGED <<tools, handlers, initialized, config, cancelled, resp, invoked, out>>

\* RunWithIO: scanner.Scan() delivers a line; the context is checked, and a
\* line of length 0 is skipped
ReadLine ==
    /\ UNCHANGED <<mu, goroutines>>
    /\ pc = "scan"
    /\ lineNo < MaxLines
    /\ \E l \in Lines(handlers) :
          /\ lineNo' = lineNo + 1
          /\ IF cancelled
             THEN pc' = "done" /\ ret' = "ctx.Err" /\ UNCHANGED line
             ELSE IF l = Blank
             THEN pc' = "scan" /\ UNCHANGED <<ret, line>>
             ELSE pc' = "handle" /\ line' = l /\ UNCHANGED ret
    /\ UNCHANGED <<tools, handlers, initialized, config, cancelled, resp, invoked, out>>

\* what RunWithIO returns when scanner.Err() is the error of a failed read of
\* the input, and when it is bufio.ErrTooLong
ReadFailed == "scanner error: read failed"
TooLong == "scanner error: token too long"

\* RunWithIO: scanner.Scan() returns false, at the end of the input or on a
\* read error
EndOfInput ==
    /\ UNCHANGED <<mu, goroutines>>
    /\ pc = "scan"
    /\ pc' = "done"
    /\ ret' \in {"nil", ReadFailed}
    /\ UNCHANGED <<tools, handlers, initialized, config, cancelled, line, lineNo, resp,
                   invoked, out>>

\* RunWithIO: scanner.Scan() returns false because the next line of the input
\* does not fit the buffer of 10 MiB the scanner was given: no line is
\* delivered, the context is not looked at, and the lines after it are never
\* scanned
LineTooLong ==
    /\ UNCHANGED <<mu, goroutines>>
    /\ pc = "scan"
    /\ lineNo < MaxLines
    /\ pc' = "done"
    /\ ret' = TooLong
    /\ UNCHANGED <<tools, handlers, initialized, config, cancelled, line, lineNo, resp,
                   invoked, out>>

\* a main that takes the cancellation for a clean end
ExitCodeZeroOnCancel(r) == IF r \in {"nil", "ctx.Err"} THEN 0 ELSE 1

\* main: os.Exit(1) when server.Run returns an error, and the return from main
\* otherwise
ExitCode(r) == IF r # "nil" THEN 1 ELSE 0

\* a server whose client takes itself for authenticated once the authenticate
\* tool has shown the device code
HandleStoresToken ==
    /\ UNCHANGED <<mu, goroutines>>
    /\ pc = "handle"
    /\ \E h \in HandleMessage(line, [tools |-> tools, handlers |-> handlers,
                                     initialized |-> initialized, config |-> config],
                              DispatchEnv) :
          /\ initialized' = h.initialized
          /\ config' = IF h.invoked # NoCall /\ h.invoked.name = "authenticate"
                          /\ h.invoked.err = Nil /\ ~h.invoked.result.IsError
                       THEN [config EXCEPT !.AccessToken = "access-token"]
                       ELSE config
          /\ IF h.resp # Nil
             THEN pc' = "write" /\ resp' = h.resp /\ invoked' = h.invoked /\ UNCHANGED line
             ELSE pc' = "scan" /\ resp' = Nil /\ invoked' = NoCall /\ line' = Blank
    /\ UNCHANGED <<tools, handlers, cancelled, lineNo, out, ret>>

\* RunWithIO: resp := s.handleMessage(ctx, line); a nil resp is not written and
\* the loop goes on to the next line
Handle ==
    /\ UNCHANGED <<mu, goroutines>>
    /\ pc = "handle"
    /\ \E h \in HandleMessage(line, [tools |-> tools, handlers |-> handlers,
                                     initialized |-> initialized, config |-> config],
                              DispatchEnv) :
          /\ initialized' = h.initialized
          /\ IF h.resp # Nil
             THEN pc' = "write" /\ resp' = h.resp /\ invoked' = h.invoked /\ UNCHANGED line
             ELSE pc' = "scan" /\ resp' = Nil /\ invoked' = NoCall /\ line' = Blank
    /\ UNCHANGED <<tools, handlers, config, cancelled, lineNo, out, ret>>

\* the envelope members of an input line, as they stand in the line
EnvelopeOf(data) ==
    IF data.t = "object"
    THEN [t |-> "object", jsonrpc |-> Member(data, "jsonrpc"), id |-> Member(data, "id"),
          method |-> Member(data, "method")]
    ELSE [t |-> data.t, jsonrpc |-> Absent, id |-> Absent, method |-> Absent]

\* what the output stream holds of one response that was written whole: the
\* number of the line it answers and that line's envelope, and the bytes of
\* json.Marshal(resp), followed by the newline
Written(n, data, r) ==
    [n |-> n, complete |-> TRUE, request |-> EnvelopeOf(data), wire |-> MarshalResponse(r)]

\* what the output stream holds of a response whose write failed: some proper
\* prefix of its bytes, which may be empty
Partial(n) == [n |-> n, complete |-> FALSE, request |-> Nil, wire |-> Nil]

\* a server whose responses reach the output ahead of the earlier ones
WriteResponseAhead ==
    /\ UNCHANGED <<mu, goroutines>>
    /\ pc = "write"
    /\ \E ok \in BOOLEAN :
          out' = <<IF ok THEN Written(lineNo, line, resp) ELSE Partial(lineNo)>> \o out
    /\ pc' = "scan"
    /\ resp' = Nil
    /\ invoked' = NoCall
    /\ line' = Blank
    /\ UNCHANGED <<tools, handlers, initialized, config, cancelled, lineNo, ret>>

\* a RunWithIO that returns the error of a failed write
WriteResponseStopsOnFailure ==
    /\ UNCHANGED <<mu, goroutines>>
    /\ pc = "write"
    /\ \E ok \in BOOLEAN :
          /\ out' = Append(out, IF ok THEN Written(lineNo, line, resp) ELSE Partial(lineNo))
          /\ pc' = IF ok THEN "scan" ELSE "done"
          /\ ret' = IF ok THEN ret ELSE "write error"
    /\ resp' = Nil
    /\ invoked' = NoCall
    /\ line' = Blank
    /\ UNCHANGED <<tools, handlers, initialized, config, cancelled, lineNo>>

\* Server.writeResponse, and RunWithIO logging its error and going on: the
\* writer takes the whole line, or fails having taken a part of it (or nothing)
WriteResponse ==
    /\ UNCHANGED <<mu, goroutines>>
    /\ pc = "write"
    /\ \E ok \in BOOLEAN :
          out' = Append(out, IF ok THEN Written(lineNo, line, resp) ELSE Partial(lineNo))
    /\ pc' = "scan"
    /\ resp' = Nil
    /\ invoked' = NoCall
    /\ line' = Blank
    /\ UNCHANGED <<tools, handlers, initialized, config, cancelled, lineNo, ret>>

Next ==
    \/ RegisterTestTools
    \/ RegisterTools
    \/ Run
    \/ Cancel
    \/ ReadLine
    \/ EndOfInput
    \/ LineTooLong
    \/ Handle
    \/ WriteResponse

Spec == Init /\ [][Next]_vars

\* the server's own steps are taken when they can be; when the input delivers a
\* line or ends, and whether the context is cancelled, is up to the host
LiveSpec == Spec /\ WF_vars(Handle) /\ WF_vars(WriteResponse)

-----------------------------------------------------------------------------
(* The handlers' runs: a program builds a client and calls a tool handler with
   arguments of its own, without the dispatcher (handlers_test.go) *)

HistoryEpisode(show, ep, day) ==
    [Type |-> "episode", Show |-> show, Episode |-> ep, Movie |-> Nil,
     WatchedAt |-> [date |-> day]]
HistoryMovie(movie, day) ==
    [Type |-> "movie", Show |-> Nil, Episode |-> Nil, Movie |-> movie,
     WatchedAt |-> [date |-> day]]

\* a search answer of n shows (movies), the first with score top and each
\* further one scoring lower
ManyShows(n, top) ==
    [i \in 1..n |-> ShowResult(top - 10 * (i - 1), ShowOf("Dark", 2010 + i, 10 + i))]
ManyMovies(n, top) ==
    [i \in 1..n |-> MovieResult(top - 10 * (i - 1), MovieOf("Heat", 1990 + i, 70 + i))]

\* what the remote service answers in the handlers' runs
HandlerEnv ==
    [failures |-> {NetErr, Reply(401, NoBody), Reply(404, NoBody), Reply(429, NoBody),
                   Reply(500, BadBody), Reply(200, BadBody), ReadErr(200)},
     search |-> {<<>>,
                 ManyShows(6, 900), ManyShows(7, 1000), ManyMovies(6, 999),
                 <<ShowResult(1000, ShowOf("Dark", 2017, 11))>>,
                 <<ShowResult(700, ShowOf("Dark", 2017, 11))>>,
                 <<ShowResult(900, ShowOf("Dark", 2017, 11)),
                   ShowResult(800, ShowOf("Dark Matter", 2015, 12))>>,
                 <<ShowResult(1000, ShowOf("Dark", 2017, 11)),
                   ShowResult(500, ShowOf("Dark Matter", 2015, 12))>>,
                 <<MovieResult(1000, MovieOf("Heat", 1995, 77))>>,
                 <<MovieResult(400, MovieOf("Heat", 1995, 77)),
                   MovieResult(300, MovieOf("Heat", 1986, 78))>>},
     history |-> {<<>>,
                  <<HistoryEpisode(ShowOf("Dark", 2017, 11), EpisodeOf(1, 2, "Lies", 5),
                                   "2024-01-15"),
                    HistoryMovie(MovieOf("Heat", 1995, 77), "2024-01-14")>>,
                  <<HistoryMovie(MovieOf("Heat", 1995, 77), "2024-01-14"),
                    HistoryEpisode(Nil, EpisodeOf(1, 1, "Secrets", 4), "2024-01-13"),
                    HistoryEpisode(ShowOf("Dark", 2017, 11), EpisodeOf(2, 12, "Ghosts", 6),
                                   "2024-01-12"),
                    HistoryMovie(Nil, "2024-01-11")>>,
                  <<HistoryEpisode(ShowOf("Dark", 2017, 11), Nil, "2024-01-10")>>},
     episode |-> {EpisodeOf(1, 2, "Lies", 5)},
     sync |-> {SyncOf(1, 0, 0, 0), SyncOf(0, 1, 0, 0), SyncOf(0, 0, 1, 0),
               SyncOf(0, 0, 0, 1), SyncOf(1, 2, 1, 1), ZeroSync},
     device |-> {DeviceCodeOf("https://trakt.tv/activate", "ABCD1234", 600)}]

\* the arguments the handler of a tool is called with
HandlerArgs(name) ==
    {Garbage, Absent, JNull, EmptyObj, JStr("x")}
    \cup (CASE name = "search_show" ->
                {JObj([query |-> JStr("dark")]), JObj([query |-> JNum(1)]),
                 JObj([query |-> JStr("dark city")]), JObj([query |-> JStr("")]),
                 JObj([type |-> JStr("movie")]),
                 JObj([query |-> JStr("heat"), type |-> JStr("movie")])}
            [] name = "get_history" ->
                {JObj([type |-> JStr("movies")]), JObj([limit |-> JNum(5)]),
                 JObj([limit |-> JStr("5")])}
            [] name = "log_watch" ->
                {JObj([type |-> JStr("book")]),
                 JObj([type |-> JStr("episode")]),
                 JObj([type |-> JStr("episode"), showName |-> JStr("dark"),
                       season |-> JNum(1), episode |-> JNum(0)]),
                 JObj([type |-> JStr("episode"), showName |-> JStr("dark"),
                       season |-> JNum(1), episode |-> JNum(2)]),
                 JObj([type |-> JStr("episode"), showName |-> JStr("dark"),
                       season |-> JNum(0), episode |-> JNum(12),
                       watchedAt |-> JStr("2024-01-15T20:00:00Z")]),
                 JObj([type |-> JStr("episode"), showName |-> JStr("dark"),
                       season |-> JStr("1"), episode |-> JNum(2)]),
                 JObj([type |-> JStr("episode"), showName |-> JStr("dark"),
                       season |-> JNum(-1), episode |-> JNum(1)]),
                 JObj([type |-> JStr("episode"), showName |-> JStr("dark"),
                       season |-> JNum(1), episode |-> JNum(-1)]),
                 JObj([type |-> JStr("episode"), showName |-> JStr("dark"),
                       season |-> JNum(0), episode |-> JNum(1)]),
                 JObj([type |-> JStr("episode"), showName |-> JStr("dark")]),
                 JObj([type |-> JStr("Episode"), showName |-> JStr("dark"),
                       season |-> JNum(1), episode |-> JNum(2)]),
                 JObj([showName |-> JStr("dark"), season |-> JNum(1), episode |-> JNum(2)]),
                 JObj([type |-> JStr("movie")]),
                 JObj([type |-> JStr("movie"), movieName |-> JStr("heat")]),
                 JObj([type |-> JStr("movie"), movieName |-> JStr("heat"),
                       watchedAt |-> JStr("2024-01-15T20:00:00Z")])}
            [] OTHER -> {})

\* a program builds its client and registers the Trakt tools with it, to take
\* the handlers from the registry
HInit ==
    /\ pc = "test"
    /\ tools = RegisterAll(<<>>, <<>>, DOMAIN TraktTools).tools
    /\ handlers = RegisterAll(<<>>, <<>>, DOMAIN TraktTools).handlers
    /\ initialized = FALSE
    /\ config \in Configs
    /\ cancelled = FALSE
    /\ line = Blank
    /\ lineNo = 0
    /\ resp = Nil
    /\ invoked = NoCall
    /\ out = <<>>
    /\ ret = "running"
    /\ mu = Unlocked
    /\ goroutines = <<>>

\* the program calls the handler of one tool; invoked is the call and what it
\* returned
CallHandler ==
    /\ UNCHANGED <<mu, goroutines>>
    /\ pc = "test"
    /\ \E name \in DOMAIN handlers :
          \E args \in HandlerArgs(name) :
             \E o \in RunHandler(handlers[name], args, config, HandlerEnv) :
                invoked' = Invocation(name, args, o)
    /\ UNCHANGED <<pc, tools, handlers, initialized, config, cancelled, line, lineNo, resp,
                   out, ret>>

HNext == CallHandler

HSpec == HInit /\ [][HNext]_vars

-----------------------------------------------------------------------------
(* The Gateway's runs: a program builds a client against a server of its own
   and calls the client's operations (client_test.go), next to the handlers *)

\* the status codes the server answers with
Statuses == {200, 201, 399, 400, 401, 403, 404, 429, 500, 503}

\* one operation of the client with its arguments
Op(name, a, b, n, m) == [name |-> name, a |-> a, b |-> b, n |-> n, m |-> m]

GatewayOps ==
    {Op("Search", "dark", "", 0, 0), Op("Search", "dark city", "movie", 0, 0),
     Op("Search", "dark", "\t", 0, 0),
     Op("GetHistory", "", "", 0, 0), Op("GetHistory", "movies", "", 5, 0),
     Op("AddToHistory", "2024-01-15T20:00:00Z", "", 77, 0),
     Op("RemoveFromHistory", "", "", 77, 0),
     Op("GetDeviceCode", "", "", 0, 0),
     Op("PollForToken", "device-code", "", 0, 0),
     Op("GetEpisode", "1388", "", 1, 1)}

\* the method, the path and the body of the request of the operation
MethodOf(op) ==
    IF op.name \in {"AddToHistory", "RemoveFromHistory", "GetDeviceCode", "PollForToken"}
    THEN "POST" ELSE "GET"
PathOf(op) ==
    CASE op.name = "Search" -> SearchPath(op.a, op.b)
      [] op.name = "GetHistory" -> HistoryPath(op.a, op.n)
      [] op.name = "AddToHistory" -> <<"/sync/history">>
      [] op.name = "RemoveFromHistory" -> <<"/sync/history/remove">>
      [] op.name = "GetDeviceCode" -> <<"/oauth/device/code">>
      [] op.name = "PollForToken" -> <<"/oauth/device/token">>
      [] op.name = "GetEpisode" -> EpisodePath(op.a, op.n, op.m)

\* what the server answers a good request of the operation with
GoodValue(op) ==
    CASE op.name = "Search" -> <<MovieResult(1000, MovieOf("Heat", 1995, 77))>>
      [] op.name = "GetHistory" -> <<HistoryMovie(MovieOf("Heat", 1995, 77), "2024-01-14")>>
      [] op.name = "AddToHistory" -> SyncOf(1, 0, 0, 0)
      [] op.name = "RemoveFromHistory" -> SyncOf(0, 0, 1, 0)
      [] op.name = "PollForToken" -> TokenOf("access-token", "refresh-token")
      [] op.name = "GetDeviceCode" -> DeviceCodeOf("https://trakt.tv/activate", "ABCD1234", 600)
      [] op.name = "GetEpisode" -> EpisodeOf(1, 1, "Pilot", 62085)

\* the exchanges the operation can meet
GatewayReplies(op) ==
    {NetErr} \cup {ReadErr(c) : c \in Statuses}
             \cup {Reply(c, b) : c \in Statuses, b \in {Body(GoodValue(op)), BadBody, NoBody}}

\* the client's operation, on the exchange h
RunOp(op, h) ==
    CASE op.name = "Search" -> Search(op.a, op.b, h)
      [] op.name = "GetHistory" -> GetHistory(op.a, op.n, h)
      [] op.name = "AddToHistory"
           -> AddToHistory([WatchedAt |-> op.a, Movies |-> <<[IDs |-> [Trakt |-> op.n]]>>], h)
      [] op.name = "RemoveFromHistory"
           -> RemoveFromHistory([WatchedAt |-> op.a, Movies |-> <<[IDs |-> [Trakt |-> op.n]]>>], h)
      [] op.name = "GetDeviceCode" -> GetDeviceCode(h)
      [] op.name = "PollForToken" -> PollForToken(op.a, h)
      [] op.name = "GetEpisode" -> GetEpisode(op.a, op.n, op.m, h)

\* no exchange: the request was not sent
Unsent == [k |-> "unsent"]

\* err.(*APIError) succeeds
IsAPIError(err) == err # Nil /\ err.kind = "APIError"

\* one operation as the program sees it: what it returned and, for an API
\* error, what the error's predicates say
Exchange(op, h) ==
    LET r == RunOp(op, h)
    IN  [t |-> "request", op |-> op, method |-> MethodOf(op), path |-> PathOf(op),
         reply |-> IF r.attempts = 0 THEN Unsent ELSE h,
         err |-> r.err, val |-> r.val, attempts |-> r.attempts,
         auth |-> IsAPIError(r.err) /\ IsAuthError(r.err),
         rate |-> IsAPIError(r.err) /\ IsRateLimited(r.err)]

\* the program calls one operation of the client
GatewayCall ==
    /\ UNCHANGED <<mu, goroutines>>
    /\ pc = "test"
    /\ \E op \in GatewayOps :
          \E h \in GatewayReplies(op) :
             invoked' = Exchange(op, h)
    /\ UNCHANGED <<pc, tools, handlers, initialized, config, cancelled, line, lineNo, resp,
                   out, ret>>

GNext == CallHandler \/ GatewayCall

GSpec == HInit /\ [][GNext]_vars

-----------------------------------------------------------------------------
(* The properties of the dispatcher *)

\* the line l is a request of the method, in a valid envelope
IsRequest(l, method) ==
    /\ l.t = "object"
    /\ Member(l, "jsonrpc") = JStr("2.0")
    /\ Member(l, "method") = JStr(method)

\* the envelope e (of a line that was answered) is of a request of the method
Answers(e, method) ==
    /\ e # Nil
    /\ e.t = "object"
    /\ e.jsonrpc = JStr("2.0")
    /\ e.method = JStr(method)

\* the line with this envelope parses as a request envelope
ParsesAsEnvelope(e) ==
    /\ e # Nil
    /\ \/ e.t = "null"
       \/ /\ e.t = "object"
          /\ e.jsonrpc.t \in {"absent", "null", "string"}
          /\ e.method.t \in {"absent", "null", "string"}

\* the line l is a tools/call request whose params name a tool
IsToolCall(l) ==
    /\ IsRequest(l, "tools/call")
    /\ Member(l, "params").t = "object"
    /\ Member(Member(l, "params"), "name").t = "string"

CalledTool(l) == Member(Member(l, "params"), "name").s

\* the text holds the piece s
Contains(text, s) == \E i \in DOMAIN text : text[i] = s

(* C1: for every input line that parses as a request envelope and gets a
   response, the id of the response written is the id of the request: the same
   string or number, null when the request's id is null, and absent when the
   request has no id. *)
C1_IdEchoed ==
    \A i \in DOMAIN out :
       out[i].complete /\ ParsesAsEnvelope(out[i].request)
          => out[i].wire.id = out[i].request.id

C1_Witness ==
    \E i, j \in DOMAIN out :
       /\ out[i].complete /\ ParsesAsEnvelope(out[i].request)
       /\ out[i].request.id = JNull /\ out[i].wire.id = JNull
       /\ out[j].complete /\ ParsesAsEnvelope(out[j].request)
       /\ out[j].request.id = JStr("req-1") /\ out[j].wire.id = JStr("req-1")

(* C2: an initialized request in a valid envelope never causes a line to be
   written to the output. *)
C2_InitializedSilent ==
    \A i \in DOMAIN out : ~Answers(out[i].request, "initialized")

(* C3: every response written has exactly one of the members result and
   error. *)
C3_ResultXorError ==
    \A i \in DOMAIN out :
       out[i].complete => ((out[i].wire.result # Absent) # (out[i].wire.error # Absent))

(* C4: a tools/call request naming a tool that is not in the registry is
   answered with a JSON-RPC error of code InvalidParams whose message contains
   the name, and no handler is invoked. *)
C4_UnknownToolRejected ==
    pc = "write" /\ IsToolCall(line) /\ CalledTool(line) \notin DOMAIN tools
       => /\ resp.Result = Nil
          /\ resp.Error # Nil
          /\ resp.Error.Code = InvalidParams
          /\ Contains(resp.Error.Message, CalledTool(line))
          /\ invoked = NoCall

C4_Witness ==
    /\ pc = "write" /\ IsToolCall(line) /\ CalledTool(line) \notin DOMAIN tools
    /\ DOMAIN tools # {}
    /\ resp.Error # Nil

(* C5: a tools/call request with well-formed params naming a registered tool is
   answered with a result and no error object: when the handler returns an
   error, the result carries the error flag and exactly one text item with the
   error's message; otherwise it is what the handler returned, unchanged. *)
C5_RegisteredToolResult ==
    pc = "write" /\ IsToolCall(line) /\ CalledTool(line) \in DOMAIN tools
       => /\ resp.Error = Nil
          /\ resp.Result # Nil
          /\ invoked # NoCall
          /\ invoked.name = CalledTool(line)
          /\ IF invoked.err # Nil
             THEN /\ resp.Result.IsError
                  /\ Len(resp.Result.Content) = 1
                  /\ resp.Result.Content[1].Type = "text"
                  /\ resp.Result.Content[1].Text = invoked.err.text
             ELSE resp.Result = invoked.result

C5_Witness ==
    /\ pc = "write" /\ IsToolCall(line) /\ CalledTool(line) \in DOMAIN tools
    /\ invoked # NoCall
    /\ invoked.err # Nil
    /\ resp.Result # Nil
    /\ resp.Result.IsError

\* the exchange h of a request failed: no reply, an error status, or a body that
\* does not decode
Failed(h) == h.k # "reply" \/ h.code >= 400 \/ h.body.t = "garbage"

\* arguments that are not syntactically valid JSON
BadJSON == {Garbage, Absent}

(* C6, as stated: each of the four tools, called with arguments that are not
   syntactically valid JSON, returns a result with the error flag and no error,
   whatever the client's configuration. *)
C6_AllToolsFlagInvalidArgs ==
    invoked # NoCall /\ invoked.args \in BadJSON
       => invoked.err = Nil /\ invoked.result.IsError

(* C6, amended: search_show, get_history and log_watch, called with arguments
   that are not syntactically valid JSON, return a result with the error flag
   and no error, whatever the client's configuration; authenticate does not
   read its arguments: it returns no error either, and its result has the error
   flag exactly when the client has no client id or the device-code request
   fails. *)
C6_InvalidArgsFlagged ==
    invoked # NoCall /\ invoked.args \in BadJSON
       => /\ invoked.err = Nil
          /\ invoked.name # "authenticate" => invoked.result.IsError
          /\ invoked.name = "authenticate"
                => (invoked.result.IsError
                      <=> \/ ~IsConfigured(config)
                          \/ \E i \in DOMAIN invoked.calls : Failed(invoked.calls[i].reply))

C6_Witness ==
    /\ invoked # NoCall /\ invoked.args = Garbage
    /\ invoked.name = "get_history"
    /\ IsAuthenticated(config)
    /\ invoked.result.IsError
    /\ invoked.calls = <<>>

(* C7: a tools/call request for a registered tool that arrives before any
   initialize request was handled is answered with a JSON-RPC error of code
   InternalError, and not with a tool result. *)
C7_UninitializedCallRefused ==
    /\ pc = "write" /\ lineNo = 1 /\ ~initialized
    /\ IsToolCall(line) /\ CalledTool(line) \in DOMAIN tools
    => resp.Result = Nil /\ resp.Error # Nil /\ resp.Error.Code = InternalError

(* C8, as stated: responses are written in the arrival order of their lines,
   and when a line is dispatched the response to every line before it is
   completely written. *)
C8_WrittenWholeBeforeNext ==
    /\ \A i, j \in DOMAIN out : i < j => out[i].n < out[j].n
    /\ pc = "handle" => \A i \in DOMAIN out : out[i].complete

(* C8, amended: responses are written in the arrival order of their lines, and
   when a line is dispatched the write of the response to every line before it
   has ended, with the whole line written or, when the writer failed, with a
   part of it or nothing; nothing of a response is written before its line was
   handled. *)
C8_InOrder ==
    /\ \A i, j \in DOMAIN out : i < j => out[i].n < out[j].n
    /\ \A i \in DOMAIN out : out[i].n <= lineNo
    /\ pc \in {"handle", "write"} => \A i \in DOMAIN out : out[i].n < lineNo

C8_Witness ==
    /\ pc = "handle"
    /\ Len(out) = 1
    /\ ~out[1].complete
    /\ out[1].n < lineNo

\* the line l does not parse as a request envelope
Unparsed(l) == ~ParsesAsEnvelope(EnvelopeOf(l))

(* C9: a line that cannot be parsed as a request envelope is answered with a
   response of code ParseError and no id; handling it invokes no handler and
   changes neither the initialized flag nor the registry, and the loop goes on
   to the next line. *)
C9_ParseErrorAnswered ==
    /\ [](\A i \in DOMAIN out :
            out[i].complete /\ ~ParsesAsEnvelope(out[i].request)
               => /\ out[i].wire.id = Absent
                  /\ out[i].wire.result = Absent
                  /\ out[i].wire.error # Absent
                  /\ out[i].wire.error.code = ParseError)
    /\ [][/\ pc = "handle" /\ pc' # "handle" /\ Unparsed(line)
             => /\ pc' = "write"
                /\ resp'.ID = Absent /\ resp'.Result = Nil
                /\ resp'.Error # Nil /\ resp'.Error.Code = ParseError
                /\ invoked' = NoCall
                /\ initialized' = initialized
                /\ tools' = tools /\ handlers' = handlers
                /\ ret' = "running"
          /\ pc = "write" /\ pc' # "write" /\ Unparsed(line)
             => pc' = "scan" /\ ret' = "running" /\ Len(out') = Len(out) + 1]_vars

C9_Witness ==
    /\ Len(out) = 2
    /\ out[1].complete /\ ~ParsesAsEnvelope(out[1].request)
    /\ out[1].wire.error # Absent
    /\ out[2].complete /\ ParsesAsEnvelope(out[2].request)
    /\ out[2].wire.result # Absent

\* the line l parses as an envelope whose protocol tag is not "2.0"
WrongTag(l) == ParsesAsEnvelope(EnvelopeOf(l)) /\ EnvelopeOf(l).jsonrpc # JStr("2.0")

(* C10: a parsed envelope whose protocol tag is not "2.0" is answered with an
   error of code InvalidRequest that carries the request's id, whatever its
   method; no handler is invoked and the initialized flag is not changed. *)
C10_WrongVersionRejected ==
    /\ [](\A i \in DOMAIN out :
            /\ out[i].complete
            /\ ParsesAsEnvelope(out[i].request)
            /\ out[i].request.jsonrpc # JStr("2.0")
            => /\ out[i].wire.id = out[i].request.id
               /\ out[i].wire.result = Absent
               /\ out[i].wire.error # Absent
               /\ out[i].wire.error.code = InvalidRequest)
    /\ [][pc = "handle" /\ pc' # "handle" /\ WrongTag(line)
             => /\ pc' = "write"
                /\ resp'.ID = EnvelopeOf(line).id /\ resp'.Result = Nil
                /\ resp'.Error # Nil /\ resp'.Error.Code = InvalidRequest
                /\ invoked' = NoCall
                /\ initialized' = initialized]_vars

C10_Witness ==
    /\ pc = "write" /\ WrongTag(line)
    /\ EnvelopeOf(line).method = JStr("initialize")
    /\ ~initialized
    /\ resp.Error # Nil

\* the methods the dispatcher knows
KnownMethods == {"initialize", "initialized", "tools/list", "tools/call"}

\* the line l is a valid envelope whose method is none of the known ones
IsUnknownMethod(l) ==
    /\ l.t = "object"
    /\ Member(l, "jsonrpc") = JStr("2.0")
    /\ Member(l, "method").t \in {"absent", "null", "string"}
    /\ Member(l, "method").t = "string" => Member(l, "method").s \notin KnownMethods

(* C11: a valid envelope whose method is none of initialize, initialized,
   tools/list and tools/call is answered with an error of code MethodNotFound;
   handling it invokes no handler and changes neither the initialized flag nor
   the registry. *)
C11_MethodNotFound ==
    /\ [](\A i \in DOMAIN out :
            /\ out[i].complete
            /\ ParsesAsEnvelope(out[i].request)
            /\ out[i].request.jsonrpc = JStr("2.0")
            /\ out[i].request.method.t = "string" => out[i].request.method.s \notin KnownMethods
            => /\ out[i].wire.result = Absent
               /\ out[i].wire.error # Absent
               /\ out[i].wire.error.code = MethodNotFound)
    /\ [][pc = "handle" /\ pc' # "handle" /\ IsUnknownMethod(line)
             => /\ pc' = "write"
                /\ resp'.Result = Nil
                /\ resp'.Error # Nil /\ resp'.Error.Code = MethodNotFound
                /\ invoked' = NoCall
                /\ initialized' = initialized
                /\ tools' = tools /\ handlers' = handlers]_vars

C11_Witness ==
    /\ pc = "write" /\ IsUnknownMethod(line)
    /\ Member(line, "method") = JStr("ping")
    /\ initialized
    /\ resp.Error # Nil

\* the params p decode into InitializeParams: an object (or null, which leaves
\* the zero value) whose members have the types of the fields
WellFormedInitialize(p) ==
    \/ p.t = "null"
    \/ /\ p.t = "object"
       /\ Member(p, "protocolVersion").t \in {"absent", "null", "string"}
       /\ Member(p, "capabilities").t \in {"absent", "null", "object"}
       /\ Member(p, "clientInfo").t \in {"absent", "null", "object"}
       /\ Member(p, "clientInfo").t = "object"
             => /\ Member(Member(p, "clientInfo"), "name").t \in {"absent", "null", "string"}
                /\ Member(Member(p, "clientInfo"), "version").t \in {"absent", "null", "string"}

(* C12: an initialize request with well-formed params sets the initialized
   flag and is answered with the server's fixed protocol version, name and
   version and a capability for tools only; one with malformed or missing
   params is answered with an error of code InvalidParams and leaves the flag as
   it was. *)
C12_Initialize ==
    [][pc = "handle" /\ pc' # "handle" /\ IsRequest(line, "initialize")
         => /\ pc' = "write"
            /\ invoked' = NoCall
            /\ IF WellFormedInitialize(Member(line, "params"))
               THEN /\ initialized'
                    /\ resp'.Error = Nil
                    /\ resp'.Result # Nil
                    /\ resp'.Result.ProtocolVersion = "2024-11-05"
                    /\ resp'.Result.ServerInfo = [Name |-> "trakt-mcp-go", Version |-> "0.1.0"]
                    /\ DOMAIN resp'.Result.Capabilities = {"Tools"}
               ELSE /\ initialized' = initialized
                    /\ resp'.Result = Nil
                    /\ resp'.Error # Nil
                    /\ resp'.Error.Code = InvalidParams]_vars

C12_Witness ==
    /\ pc = "write" /\ IsRequest(line, "initialize")
    /\ ~WellFormedInitialize(Member(line, "params"))
    /\ initialized
    /\ resp.Error # Nil
    /\ Len(out) = 1
    /\ out[1].complete
    /\ Answers(out[1].request, "initialize")
    /\ out[1].wire.result # Absent

(* C13: when the context is already cancelled as a line has been read,
   RunWithIO returns the context's error without dispatching the line and
   without writing anything for it; no line is dispatched once the cancellation
   has been observed. *)
C13_CancelledBeforeProcessing ==
    /\ [](ret = "ctx.Err" => pc = "done" /\ resp = Nil /\ invoked = NoCall)
    /\ [][/\ pc = "scan" /\ cancelled /\ lineNo' # lineNo
             => /\ pc' = "done"
                /\ ret' = "ctx.Err"
                /\ out' = out
                /\ resp' = Nil
                /\ invoked' = NoCall
                /\ initialized' = initialized
          /\ pc # "handle" /\ pc' = "handle" => ~cancelled
          /\ pc = "done" => pc' = "done" /\ out' = out]_vars

C13_Witness ==
    /\ pc = "done"
    /\ ret = "ctx.Err"
    /\ lineNo = 2
    /\ Len(out) = 1
    /\ out[1].complete

(* C14: once the context is cancelled RunWithIO returns, also when it is
   waiting for input and neither a line nor the end of the input arrives. *)
C14_CancelReturns ==
    (cancelled /\ pc = "scan" /\ lineNo < MaxLines) ~> (pc = "done")

\* the exchange h ended in a transport error (a timeout is one) or an error status
RemoteFailure(h) == h.k # "reply" \/ h.code >= 400

\* a remote call of the tool call inv failed
RemoteFailed(inv) ==
    inv # NoCall /\ \E i \in DOMAIN inv.calls : RemoteFailure(inv.calls[i].reply)

(* C15: a tool call whose remote call fails (transport error, timeout or error
   status) does not end the dispatch loop: it is answered with a tool result
   that has the error flag, and the loop goes on to the next line. *)
C15_RemoteFailureSurvived ==
    /\ [](pc = "write" /\ RemoteFailed(invoked)
            => /\ ret = "running"
               /\ resp.Error = Nil
               /\ resp.Result # Nil
               /\ resp.Result.IsError)
    /\ [][pc = "write" /\ RemoteFailed(invoked) /\ pc' # "write"
             => pc' = "scan" /\ ret' = "running" /\ Len(out') = Len(out) + 1]_vars

C15_Witness ==
    /\ pc = "write"
    /\ lineNo = 2
    /\ resp.Result # Nil
    /\ Len(out) = 1
    /\ out[1].complete
    /\ Answers(out[1].request, "tools/call")
    /\ out[1].wire.result # Absent
    /\ out[1].wire.result.isError # Absent
    /\ Contains(out[1].wire.result.content[1].Text, "http request: ")

\* the names of the tools in a tools/list result
ToolNames(r) == {r.Tools[i].Name : i \in DOMAIN r.Tools}

(* C16: tools/list returns exactly the tools of the registry, each once (after
   RegisterTools these are authenticate, search_show, get_history and log_watch
   and no other), and two tools/list calls of a run, with no registration
   between them, return the same set of tool names. *)
C16_ToolsListed ==
    /\ pc = "write" /\ IsRequest(line, "tools/list")
          => /\ resp.Error = Nil
             /\ resp.Result # Nil
             /\ ToolNames(resp.Result) = DOMAIN tools
             /\ Len(resp.Result.Tools) = Cardinality(DOMAIN tools)
             /\ \A i \in DOMAIN resp.Result.Tools :
                   resp.Result.Tools[i] = tools[resp.Result.Tools[i].Name]
             /\ "authenticate" \in DOMAIN tools
                   => ToolNames(resp.Result)
                         = {"authenticate", "search_show", "get_history", "log_watch"}
    /\ \A i, j \in DOMAIN out :
          /\ i < j
          /\ out[i].complete /\ out[j].complete
          /\ Answers(out[i].request, "tools/list")
          /\ Answers(out[j].request, "tools/list")
          => ToolNames(out[i].wire.result) = ToolNames(out[j].wire.result)

C16_Witness ==
    /\ Len(out) = 2
    /\ out[1].complete /\ Answers(out[1].request, "tools/list")
    /\ out[2].complete /\ Answers(out[2].request, "tools/list")
    /\ out[1].wire.result # out[2].wire.result
    /\ "log_watch" \in ToolNames(out[1].wire.result)

-----------------------------------------------------------------------------
(* log_watch, checked on the handlers' runs (HSpec) *)

\* the run inv is a log_watch call that got as far as its search request
Searched(inv) == inv # NoCall /\ inv.name = "log_watch" /\ Len(inv.calls) >= 1

\* the search of the log_watch call inv was answered without a Gateway error
SearchSucceeded(inv) == Searched(inv) /\ ~Failed(inv.calls[1].reply)

\* what that search returned
Found(inv) == Search("", "", inv.calls[1].reply).val

\* the path of the log_watch call inv: "show" for episodes, "movie" for movies
PathKind(inv) == IF StringOf(Field(inv.args, "type")) = "episode" THEN "show" ELSE "movie"

\* the text of the result of inv
TextOf(inv) == inv.result.Content[1].Text

\* the number of times the piece s occurs in the text
Count(text, s) == Cardinality({i \in DOMAIN text : text[i] = s})

\* inv was answered as ambiguous
ToldMultiple(inv) ==
    /\ inv.result.IsError
    /\ Contains(TextOf(inv), IF PathKind(inv) = "show" THEN "Multiple shows found"
                             ELSE "Multiple movies found")

\* the text ends with the note that n more results exist
EndsWithNote(text, n) ==
    /\ Len(text) >= 3
    /\ SubSeq(text, Len(text) - 2, Len(text)) = <<"... and ", ToString(n), " more\n">>

(* C17, as stated: log_watch treats a search outcome as ambiguous exactly when
   more than one result is returned and the top result's score is below 1000. *)
C17_AmbiguousByCountAndScore ==
    SearchSucceeded(invoked)
       => (ToldMultiple(invoked)
             <=> Len(Found(invoked)) > 1 /\ Found(invoked)[1].Score < HighConfidence)

(* C17, amended: log_watch treats a search outcome as ambiguous exactly when
   more than one result is returned, the top result carries a show (movie), and
   its score is below 1000; the result then has the error flag, says "Multiple
   shows found" (or "Multiple movies found"), lists at most 5 candidates, and
   ends with a note giving the number of remaining results exactly when more
   than 5 exist. *)
C17_AmbiguousResolvedTop ==
    SearchSucceeded(invoked)
       => LET rs == Found(invoked)
              text == TextOf(invoked)
          IN  /\ ToldMultiple(invoked)
                    <=> /\ Len(rs) > 1
                        /\ Entity(rs[1], PathKind(invoked)) # Nil
                        /\ rs[1].Score < HighConfidence
              /\ ToldMultiple(invoked)
                    => /\ invoked.err = Nil
                       /\ Count(text, "* ") <= 5
                       /\ Count(text, "* ") <= Len(rs)
                       /\ Contains(text, "... and ") <=> Len(rs) > 5
                       /\ Len(rs) > 5 => EndsWithNote(text, Len(rs) - 5)

\* six shows, the top one scoring 900: five are listed and one more is noted
C17_Witness ==
    /\ SearchSucceeded(invoked)
    /\ PathKind(invoked) = "show"
    /\ Len(Found(invoked)) = 6
    /\ ToldMultiple(invoked)
    /\ Count(TextOf(invoked), "* ") = 5
    /\ EndsWithNote(TextOf(invoked), 1)

\* the history-add requests of the run inv
HistoryAdds(inv) ==
    {i \in DOMAIN inv.calls : inv.calls[i].method = "POST"
                                /\ inv.calls[i].path = <<"/sync/history">>}

\* the top result rs[1] is taken as authoritative
Trusted(rs, kind) ==
    /\ Len(rs) >= 1
    /\ Entity(rs[1], kind) # Nil
    /\ Len(rs) = 1 \/ rs[1].Score >= HighConfidence

\* the episode the lookup of the log_watch call inv returned
Looked(inv) == GetEpisode("", 0, 0, inv.calls[2].reply).val

\* an item of the history-add request that carries the remote id alone
OnlyId(id) == [IDs |-> [Trakt |-> id]]

(* C18: within one log_watch call a history-add request is submitted at most
   once, as the last request, and only after the search returned a top result
   that is not ambiguous (a single result, or a top score of at least 1000
   whatever the number of results) and, on the episode path, after the lookup
   of the episode under the top show's id succeeded; the request carries
   exactly one item, with the remote id resolved from the top result, and the
   caller's watchedAt unchanged. *)
C18_ResolveThenCommit ==
    invoked # NoCall /\ invoked.name = "log_watch"
       => /\ Cardinality(HistoryAdds(invoked)) <= 1
          /\ \A i \in HistoryAdds(invoked) :
                LET calls == invoked.calls
                    rs == Found(invoked)
                    kind == PathKind(invoked)
                    item == calls[i].body
                IN  /\ i = Len(calls)
                    /\ SearchSucceeded(invoked)
                    /\ Trusted(rs, kind)
                    /\ item.WatchedAt = StringOf(Field(invoked.args, "watchedAt"))
                    /\ kind = "movie"
                          => /\ i = 2
                             /\ DOMAIN item = {"WatchedAt", "Movies"}
                             /\ item.Movies = <<OnlyId(rs[1].Movie.IDs.Trakt)>>
                    /\ kind = "show"
                          => /\ i = 3
                             /\ calls[2].method = "GET"
                             /\ calls[2].path
                                  = EpisodePath(ToString(rs[1].Show.IDs.Trakt),
                                                IntOf(Field(invoked.args, "season")),
                                                IntOf(Field(invoked.args, "episode")))
                             /\ ~Failed(calls[2].reply)
                             /\ DOMAIN item = {"WatchedAt", "Episodes"}
                             /\ item.Episodes = <<OnlyId(Looked(invoked).IDs.Trakt)>>

\* an episode logged with a watchedAt after a search of seven results whose top
\* score is 1000
C18_Witness ==
    /\ SearchSucceeded(invoked)
    /\ PathKind(invoked) = "show"
    /\ Len(Found(invoked)) = 7
    /\ HistoryAdds(invoked) = {3}
    /\ invoked.calls[3].body.WatchedAt = "2024-01-15T20:00:00Z"
    /\ invoked.calls[3].body.Episodes = <<OnlyId(5)>>
    /\ ~invoked.result.IsError

\* the last request of the run inv
LastCall(inv) == inv.calls[Len(inv.calls)]

\* the error the Gateway returned for the request c
GatewayError(c) == Do(c.method, c.path, c.reply, Nil).err

(* C19: in log_watch a Gateway transport or API error from any outbound call
   (search, episode lookup, history sync) is returned as a tool result with the
   error flag whose message is the Gateway error's own message. *)
C19_GatewayErrorPropagated ==
    Searched(invoked) /\ RemoteFailure(LastCall(invoked).reply)
       => /\ invoked.err = Nil
          /\ invoked.result = ErrorContent(ErrorText(GatewayError(LastCall(invoked))))

\* the history-add request of the log_watch call inv succeeded
Synced(inv) ==
    /\ inv # NoCall /\ inv.name = "log_watch"
    /\ HistoryAdds(inv) # {}
    /\ ~Failed(LastCall(inv).reply)

\* the counts of the sync response of inv for the kind of its path
SyncCounts(inv) ==
    LET r == AddToHistory(Nil, LastCall(inv).reply).val
    IN  IF PathKind(inv) = "show"
        THEN [added |-> r.Added.Episodes, existing |-> r.Existing.Episodes]
        ELSE [added |-> r.Added.Movies, existing |-> r.Existing.Movies]

\* the title of the show or movie that inv resolved
ResolvedTitle(inv) == Entity(Found(inv)[1], PathKind(inv)).Title

\* the warning that the item was not added, for no known reason
UnknownReason(inv) ==
    IF PathKind(inv) = "show" THEN <<"[warn] Episode was not added (unknown reason)">>
    ELSE <<"[warn] Movie was not added (unknown reason)">>

(* C20: after a history-add request succeeded, log_watch renders by the sync
   counts of the kind of its path (episodes on the episode path, movies on the
   movie path): added > 0 gives a "Logged" message with the title, otherwise
   existing > 0 gives an "Already watched" message, otherwise a warning of
   unknown cause; none of the three has the error flag, and added > 0 wins when
   both counts are positive. *)
C20_RenderedBySyncCounts ==
    Synced(invoked)
       => LET n == SyncCounts(invoked)
              text == TextOf(invoked)
          IN  /\ invoked.err = Nil
              /\ ~invoked.result.IsError
              /\ n.added > 0
                    => /\ Contains(text, "Logged")
                       /\ Contains(text, ResolvedTitle(invoked))
                       /\ ~Contains(text, "Already watched")
              /\ n.added <= 0 /\ n.existing > 0
                    => /\ Contains(text, "Already watched")
                       /\ ~Contains(text, "Logged")
              /\ n.added <= 0 /\ n.existing <= 0
                    => text = UnknownReason(invoked)

\* a movie whose sync response counts it both as added and as existing
C20_Witness ==
    /\ Synced(invoked)
    /\ PathKind(invoked) = "movie"
    /\ SyncCounts(invoked).added > 0
    /\ SyncCounts(invoked).existing > 0
    /\ Contains(TextOf(invoked), "Logged")
    /\ ~invoked.result.IsError

-----------------------------------------------------------------------------
(* log_watch: the checks made before any request *)

\* the arguments of the log_watch call inv decode into logWatchArgs
LogWatchDecoded(inv) ==
    /\ inv # NoCall /\ inv.name = "log_watch"
    /\ IsAuthenticated(config)
    /\ Decodes(inv.args, {"type", "showName", "movieName", "watchedAt"}, {"season", "episode"})

\* inv is a call on the episode path that names a show
EpisodeCall(inv) ==
    /\ LogWatchDecoded(inv)
    /\ StringOf(Field(inv.args, "type")) = "episode"
    /\ StringOf(Field(inv.args, "showName")) # ""

SeasonOf(inv) == IntOf(Field(inv.args, "season"))
EpisodeNoOf(inv) == IntOf(Field(inv.args, "episode"))

\* the validation error of the season and episode numbers
RangeError == ErrorResult(<<"Error: season must be >= 0 and episode must be positive">>)

(* C21: on the log_watch episode path, with an authenticated client and a
   non-empty showName, the validation error of the season and episode numbers
   is returned exactly when season < 0 or episode <= 0, and no request is made
   then; otherwise the call goes on to search for the show. *)
C21_SeasonEpisodeRange ==
    EpisodeCall(invoked)
       => /\ invoked.err = Nil
          /\ invoked.result = RangeError
                <=> SeasonOf(invoked) < 0 \/ EpisodeNoOf(invoked) <= 0
          /\ invoked.result = RangeError => invoked.calls = <<>>
          /\ invoked.result # RangeError
                => /\ Len(invoked.calls) >= 1
                   /\ invoked.calls[1].method = "GET"
                   /\ invoked.calls[1].path
                        = SearchPath(StringOf(Field(invoked.args, "showName")), "show")

\* season 0 with episode 1 passes the check and the show is searched
C21_Witness ==
    /\ EpisodeCall(invoked)
    /\ SeasonOf(invoked) = 0 /\ EpisodeNoOf(invoked) = 1
    /\ Searched(invoked)
    /\ invoked.result # RangeError

TypeOf(inv) == StringOf(Field(inv.args, "type"))

(* C22: for an authenticated client, log_watch with a type other than exactly
   "episode" or "movie" (a missing type included) returns a result with the
   error flag that names the two accepted values; type "episode" with an empty
   showName and type "movie" with an empty movieName each return a result with
   the error flag.  None of them makes a request. *)
C22_TypeAndNameRequired ==
    LogWatchDecoded(invoked)
       => /\ TypeOf(invoked) \notin {"episode", "movie"}
                => /\ invoked.err = Nil
                   /\ invoked.result.IsError
                   /\ Contains(TextOf(invoked), "episode")
                   /\ Contains(TextOf(invoked), "movie")
                   /\ invoked.calls = <<>>
          /\ TypeOf(invoked) = "episode" /\ StringOf(Field(invoked.args, "showName")) = ""
                => /\ invoked.err = Nil
                   /\ invoked.result.IsError
                   /\ invoked.calls = <<>>
          /\ TypeOf(invoked) = "movie" /\ StringOf(Field(invoked.args, "movieName")) = ""
                => /\ invoked.err = Nil
                   /\ invoked.result.IsError
                   /\ invoked.calls = <<>>

\* a type that differs from "episode" by its case only is refused
C22_Witness ==
    /\ LogWatchDecoded(invoked)
    /\ TypeOf(invoked) = "Episode"
    /\ invoked.result.IsError
    /\ Contains(TextOf(invoked), "episode") /\ Contains(TextOf(invoked), "movie")

-----------------------------------------------------------------------------
(* the client's configuration and the tools that need it *)

\* the tools that need an access token
NeedToken == {"get_history", "log_watch"}

(* C23: get_history and log_watch, called while the client has no access
   token, return the result with the error flag that tells the caller to
   authenticate first, whatever their arguments are, and make no request. *)
C23_TokenRequired ==
    invoked # NoCall /\ invoked.name \in NeedToken /\ ~IsAuthenticated(config)
       => /\ invoked.err = Nil
          /\ invoked.result = NotAuthenticated
          /\ invoked.result.IsError
          /\ invoked.calls = <<>>

\* get_history without a token and with arguments that are no JSON
C23_Witness ==
    /\ invoked # NoCall /\ invoked.name = "get_history"
    /\ ~IsAuthenticated(config)
    /\ invoked.args = Garbage
    /\ invoked.result = NotAuthenticated

\* the message that the client credentials are missing
NotConfigured ==
    ErrorResult(<<"Error: TRAKT_CLIENT_ID and TRAKT_CLIENT_SECRET environment variables must be set">>)

(* C24: authenticate, called while the client has no client id, returns a
   result with the error flag and the configuration message as a normal return
   value (the handler returns no error), and requests no device code. *)
C24_ConfigurationRequired ==
    invoked # NoCall /\ invoked.name = "authenticate" /\ ~IsConfigured(config)
       => /\ invoked.err = Nil
          /\ invoked.result = NotConfigured
          /\ invoked.result.IsError
          /\ invoked.calls = <<>>

\* authenticate on a client without a client id
C24_Witness ==
    /\ invoked # NoCall /\ invoked.name = "authenticate"
    /\ ~IsConfigured(config)
    /\ invoked.args = EmptyObj
    /\ invoked.result = NotConfigured
    /\ invoked.err = Nil

-----------------------------------------------------------------------------
(* search_show and get_history: what they render *)

\* the query of the search_show call inv, "" when it is missing or no string
QueryOf(inv) == StringOf(Field(inv.args, "query"))

\* the one request of inv was answered without a Gateway error
Fetched(inv) == Len(inv.calls) = 1 /\ ~Failed(inv.calls[1].reply)

(* C25: search_show with an empty or missing query returns a result with the
   error flag and makes no request; with a non-empty query for which the remote
   search returns zero results it returns a result without the error flag whose
   text is "No results found" followed by the query as it was given. *)
C25_EmptyQueryAndNoResults ==
    invoked # NoCall /\ invoked.name = "search_show"
       => /\ invoked.err = Nil
          /\ QueryOf(invoked) = ""
                => invoked.result.IsError /\ invoked.calls = <<>>
          /\ QueryOf(invoked) # "" /\ Fetched(invoked) /\ Len(Found(invoked)) = 0
                => /\ ~invoked.result.IsError
                   /\ TextOf(invoked) = <<"No results found", " for: ", QueryOf(invoked)>>

\* a query with a space finds nothing: it is sent escaped and reported as given
C25_Witness ==
    /\ invoked # NoCall /\ invoked.name = "search_show"
    /\ QueryOf(invoked) = "dark city"
    /\ Fetched(invoked) /\ Len(Found(invoked)) = 0
    /\ invoked.calls[1].path = <<"/search/", "show,movie", "?query=", "dark+city">>
    /\ TextOf(invoked) = <<"No results found", " for: ", "dark city">>
    /\ ~invoked.result.IsError

\* the items the get_history call inv received
Items(inv) == GetHistory("", 0, inv.calls[1].reply).val

\* the payload of the item h matches its declared type
Matches(h) ==
    \/ h.Type = "episode" /\ h.Show # Nil /\ h.Episode # Nil
    \/ h.Type = "movie" /\ h.Movie # Nil

\* the line of an item whose payload matches its type
LineOf(h) ==
    IF h.Type = "episode"
    THEN <<"[tv] ", h.Show.Title, " S", Pad2(h.Episode.Season), "E", Pad2(h.Episode.Number),
           " - ", h.Episode.Title, " (", h.WatchedAt.date, ")\n">>
    ELSE <<"[film] ", h.Movie.Title, " (", h.WatchedAt.date, ")\n">>

RECURSIVE LinesOf(_)
\* the lines of the items in their order
LinesOf(items) == IF items = <<>> THEN <<>> ELSE LineOf(Head(items)) \o LinesOf(Tail(items))

(* C26: for an authenticated client, get_history with zero remote items
   returns a "No watch history" message without the error flag; with items it
   renders one line per item whose payload matches its declared type, in the
   order received, an episode item as show title and zero-padded SxxExx, and
   leaves out every other item without setting the error flag. *)
C26_HistoryRendered ==
    invoked # NoCall /\ invoked.name = "get_history" /\ Fetched(invoked)
       => /\ invoked.err = Nil
          /\ ~invoked.result.IsError
          /\ Len(Items(invoked)) = 0
                => TextOf(invoked) = <<"No watch history found.">>
          /\ Len(Items(invoked)) > 0
                => /\ TextOf(invoked) = LinesOf(SelectSeq(Items(invoked), Matches))
                   /\ Count(TextOf(invoked), ")\n")
                        = Cardinality({i \in DOMAIN Items(invoked) : Matches(Items(invoked)[i])})

\* four items of which the second and the fourth lack their payload: two lines,
\* the movie first, the episode as S02E12
C26_Witness ==
    /\ invoked # NoCall /\ invoked.name = "get_history" /\ Fetched(invoked)
    /\ Len(Items(invoked)) = 4
    /\ TextOf(invoked) = <<"[film] ", "Heat", " (", "2024-01-14", ")\n",
                           "[tv] ", "Dark", " S", "02", "E", "12", " - ", "Ghosts", " (",
                           "2024-01-12", ")\n">>
    /\ ~invoked.result.IsError

-----------------------------------------------------------------------------
(* The properties of the Gateway (GSpec) *)

\* invoked is one operation of the client
Requested(inv) == inv # NoCall /\ inv.t = "request"

\* a response arrived for the request, with a status code
Responded(h) == h.k \in {"reply", "readerr"}

(* C27, as stated: every Gateway operation maps an HTTP response with a status
   of 400 or more to an API error. *)
C27_ErrorStatusIsAPIError ==
    Requested(invoked) /\ Responded(invoked.reply) /\ invoked.reply.code >= 400
       => IsAPIError(invoked.err)

(* C27, amended: every Gateway operation maps an HTTP response with a status of
   400 or more whose body was read to the end to an API error that carries
   exactly the status code, the HTTP method and the request path and nothing of
   the response body; a response whose body cannot be read is a read error
   whatever its status.  On an API error IsAuthError is true exactly for 401
   and 403 and IsRateLimited exactly for 429, so the two are never both true;
   a status below 400 never yields an API error. *)
C27_ReadErrorStatusIsAPIError ==
    Requested(invoked)
       => LET h == invoked.reply
              e == invoked.err
          IN  /\ h.k = "reply" /\ h.code >= 400
                    => /\ e = APIErrorOf(h.code, invoked.method, invoked.path)
                       /\ DOMAIN e = {"kind", "StatusCode", "Method", "Path"}
                       /\ invoked.val # GoodValue(invoked.op)
              /\ h.k = "readerr" => e = WrappedError("read response: ")
              /\ IsAPIError(e) <=> h.k = "reply" /\ h.code >= 400
              /\ IsAPIError(e)
                    => /\ invoked.auth <=> e.StatusCode \in {401, 403}
                       /\ invoked.rate <=> e.StatusCode = 429
                       /\ ~(invoked.auth /\ invoked.rate)

\* a 429 answered with a body that would decode: an API error for the path of
\* the episode, rate limited and no authentication error
C27_Witness ==
    /\ Requested(invoked)
    /\ invoked.op.name = "GetEpisode"
    /\ invoked.reply = Reply(429, Body(GoodValue(invoked.op)))
    /\ invoked.err = APIErrorOf(429, "GET", <<"/shows/", "1388", "/seasons/", "1", "/episodes/", "1">>)
    /\ invoked.rate /\ ~invoked.auth

\* invoked is a call of a tool's handler
Called(inv) == inv # NoCall /\ inv.t = "call"

\* no handler repeats a remote call: it makes no request after one that failed,
\* and asks for no path twice
NothingRepeated(inv) ==
    /\ \A i \in DOMAIN inv.calls : Failed(inv.calls[i].reply) => i = Len(inv.calls)
    /\ \A i, j \in DOMAIN inv.calls :
          /\ inv.calls[i].method = inv.calls[j].method
          /\ inv.calls[i].path = inv.calls[j].path
          => i = j

(* C28, as stated: every Gateway operation issues exactly one HTTP request per
   call. *)
C28_ExactlyOneRequest == Requested(invoked) => invoked.attempts = 1

(* C28, amended: every Gateway operation issues at most one HTTP request per
   call, and exactly one whenever the request can be built, whether that
   request succeeds or fails; a request whose URL does not parse is not sent at
   all and the operation returns a "create request" error.  No tool handler
   repeats a failed remote call. *)
C28_OneAttempt ==
    /\ Requested(invoked)
          => /\ invoked.attempts <= 1
             /\ invoked.attempts = 1 <=> Buildable(invoked.path)
             /\ invoked.attempts = 0 => invoked.err = WrappedError("create request: ")
    /\ Called(invoked) => NothingRepeated(invoked)

\* a search that fails in transport was tried once
C28_Witness ==
    /\ Requested(invoked)
    /\ invoked.op.name = "Search"
    /\ invoked.reply = NetErr
    /\ invoked.err = WrappedError("http request: ")
    /\ invoked.attempts = 1

-----------------------------------------------------------------------------
(* The client's configuration and the session flag over a run of the server *)

\* the output o is the answer of an authenticate call that showed a device code
AuthenticateSucceeded(o) ==
    /\ o.complete
    /\ o.wire.result.t = "ToolCallResult"
    /\ o.wire.result.isError = Absent
    /\ Contains(o.wire.result.content[1].Text,
                "[lock] **Trakt Authentication**\n\nPlease visit: ")

\* a call of a tool that needs the token is being answered
AnsweringTokenTool ==
    pc = "write" /\ invoked # NoCall /\ invoked.name \in NeedToken /\ invoked.err = Nil

(* C29: the client's configuration is never changed after construction: no
   step of the server changes whether the client is configured or
   authenticated; in particular, after a successful authenticate call,
   get_history and log_watch on a client constructed without an access token
   are still refused by the authentication check. *)
C29_ConfigReadOnly ==
    /\ [](AnsweringTokenTool /\ ~IsAuthenticated(config)
             /\ (\E i \in DOMAIN out : AuthenticateSucceeded(out[i]))
            => invoked.result = NotAuthenticated /\ resp.Result = NotAuthenticated)
    /\ [][pc # "setup" => config' = config]_vars

\* get_history is refused on the line after the device code was shown
C29_Witness ==
    /\ AnsweringTokenTool
    /\ invoked.name = "get_history"
    /\ IsConfigured(config) /\ ~IsAuthenticated(config)
    /\ Len(out) = 1 /\ AuthenticateSucceeded(out[1])
    /\ resp.Result = NotAuthenticated

(* C30: the initialized flag starts false, becomes true only through an
   initialize request with a valid envelope and well-formed params, and once
   true stays true for the rest of the run whatever requests follow, later
   failing initialize requests included. *)
C30_InitializedMonotone ==
    /\ [](pc = "setup" => ~initialized)
    /\ [][~initialized /\ initialized'
            => /\ pc = "handle"
               /\ IsRequest(line, "initialize")
               /\ WellFormedInitialize(Member(line, "params"))]_vars
    /\ [][initialized => initialized']_vars

\* a second initialize, with malformed params, is refused and the flag stays
C30_Witness ==
    /\ pc = "write" /\ lineNo = 2
    /\ IsRequest(line, "initialize")
    /\ ~WellFormedInitialize(Member(line, "params"))
    /\ resp.Error # Nil /\ resp.Error.Code = InvalidParams
    /\ initialized

-----------------------------------------------------------------------------
(* One line at handleMessage: the server is in any state a run can have    *)
(* brought it to - either registry, the flag set or clear, any client -    *)
(* and the line is any line of its input.                                   *)

\* the registry of the test program, as RegisterTestTools builds it
TestRegistry ==
    LET r1 == RegisterTool(<<>>, <<>>, [Name |-> "test_tool", Required |-> {}], "test_tool")
    IN  RegisterTool(r1.tools, r1.handlers, [Name |-> "failing", Required |-> {}], "failing")

\* RunWithIO has scanned a line and is about to call handleMessage
DispatchInit ==
    /\ pc = "handle"
    /\ \/ /\ tools = TestRegistry.tools
          /\ handlers = TestRegistry.handlers
          /\ config = NoConfig
       \/ /\ tools = RegisterAll(<<>>, <<>>, DOMAIN TraktTools).tools
          /\ handlers = RegisterAll(<<>>, <<>>, DOMAIN TraktTools).handlers
          /\ config \in Configs
    /\ initialized \in BOOLEAN
    /\ cancelled = FALSE
    /\ line \in Lines(handlers) \ {Blank}
    /\ lineNo = 1
    /\ resp = Nil
    /\ invoked = NoCall
    /\ out = <<>>
    /\ ret = "running"
    /\ mu = Unlocked
    /\ goroutines = <<>>

DispatchSpec == DispatchInit /\ [][Handle]_vars

-----------------------------------------------------------------------------
(* The session flag and the registry in the dispatch of tools/list and
   tools/call *)

\* the server of the current state, with the flag set to b
ServerWith(b) ==
    [tools |-> tools, handlers |-> handlers, initialized |-> b, config |-> config]

\* what handling the line data can come to on the server srv: the response and
\* the handler invoked
Handlings(data, srv) ==
    {[resp |-> h.resp, invoked |-> h.invoked] : h \in HandleMessage(data, srv, DispatchEnv)}

\* the line is a tools/list or a tools/call request
IsToolsRequest(l) == IsRequest(l, "tools/list") \/ IsRequest(l, "tools/call")

(* C31: the initialized flag never gates or alters request handling: whatever
   lines were handled before, a tools/list or tools/call request gets the same
   responses, from the same handler runs, with the flag set and with the flag
   clear, and leaves the flag as it was. *)
C31_FlagNeverGates ==
    pc = "handle" /\ IsToolsRequest(line)
       => LET whenSet == HandleMessage(line, ServerWith(TRUE), DispatchEnv)
              whenClear == HandleMessage(line, ServerWith(FALSE), DispatchEnv)
          IN  /\ {[resp |-> h.resp, invoked |-> h.invoked] : h \in whenSet}
                    = {[resp |-> h.resp, invoked |-> h.invoked] : h \in whenClear}
              /\ \A h \in whenSet : h.initialized
              /\ \A h \in whenClear : ~h.initialized

\* a call of a registered tool is about to be handled on a server that saw no
\* initialize, and one of its runs returns the tool's result
C31_Witness ==
    /\ pc = "handle" /\ ~initialized
    /\ IsToolCall(line) /\ CalledTool(line) \in DOMAIN tools
    /\ \E h \in Handlings(line, ServerWith(FALSE)) :
          /\ h.resp.Result # Nil /\ h.resp.Error = Nil
          /\ h \in Handlings(line, ServerWith(TRUE))

-----------------------------------------------------------------------------
(* The registry under concurrent use: goroutines call Server.RegisterTool   *)
(* while the dispatcher serves tools/list and tools/call.  Every step is    *)
(* one operation on Server.mu or one statement on the maps, so the state    *)
(* between the two assignments of RegisterTool is a state of the model.     *)

\* number of requests the dispatcher serves in one run
MaxRequests == 2

\* the goroutines that call RegisterTool, and the one that runs the dispatcher
Registrars == {"r1", "r2"}
Dispatcher == "d"
Goroutines == Registrars \cup {Dispatcher}

\* the tool names the goroutines register and call
RegistryNames == {"a", "b"}

\* the Tool value goroutine t registers under name n
ToolOf(t, n) == [Name |-> n, Required |-> {}, Description |-> t]

\* the ToolHandler goroutine t registers; registers tells whether the handler
\* calls RegisterTool itself when it runs
HandlerOf(t, b) == [by |-> t, registers |-> b]

\* the zero ToolHandler of a lookup that found nothing (ok = false)
NoHandler == [by |-> "none", registers |-> FALSE]

\* a goroutine that stands at position at: tool and handler are the arguments
\* of its RegisterTool call, name the p.Name of its tools/call, found the
\* handler its lookup returned, left the requests it still serves
Goroutine(at, tool, handler, name, found, left) ==
    [at |-> at, tool |-> tool, handler |-> handler, name |-> name, found |-> found,
     left |-> left]

\* a goroutine outside every call
Idle(at, left) == Goroutine(at, ToolOf("none", ""), NoHandler, "", NoHandler, left)

\* the variables of the dispatch loop, which the registry steps leave alone
loopVars == <<pc, initialized, config, cancelled, line, lineNo, resp, invoked, out, ret>>

\* a new Server, with its registrars and its dispatcher about to start
CInit ==
    /\ pc = "concurrent"
    /\ tools = <<>>
    /\ handlers = <<>>
    /\ initialized = FALSE
    /\ config = NoConfig
    /\ cancelled = FALSE
    /\ line = Blank
    /\ lineNo = 0
    /\ resp = Nil
    /\ invoked = NoCall
    /\ out = <<>>
    /\ ret = "running"
    /\ mu = Unlocked
    /\ goroutines = [t \in Goroutines |-> Idle("idle", IF t = Dispatcher THEN MaxRequests ELSE 0)]

\* goroutine t enters RegisterTool(tool, handler) and calls s.mu.Lock(): from
\* now on the call waits, and a waiting Lock keeps new readers out
EnterRegisterTool(t, tool, handler) ==
    /\ goroutines' = [goroutines EXCEPT ![t].at = "Lock", ![t].tool = tool,
                                        ![t].handler = handler]
    /\ mu' = [mu EXCEPT !.pending = @ \cup {t}]
    /\ UNCHANGED <<tools, handlers>>
    /\ UNCHANGED loopVars

\* a registrar calls RegisterTool
CallRegisterTool(t) ==
    /\ pc = "concurrent"
    /\ t \in Registrars
    /\ goroutines[t].at = "idle"
    /\ \E n \in RegistryNames : \E b \in BOOLEAN :
          EnterRegisterTool(t, ToolOf(t, n), HandlerOf(t, b))

\* locking without waiting for the readers and the writer to leave
LockWithoutWaiting(t) ==
    /\ pc = "concurrent"
    /\ goroutines[t].at = "Lock"
    /\ mu' = [mu EXCEPT !.writer = t, !.pending = @ \ {t}]
    /\ goroutines' = [goroutines EXCEPT ![t].at = "tools"]
    /\ UNCHANGED <<tools, handlers>>
    /\ UNCHANGED loopVars

\* s.mu.Lock() returns to t: nobody reads and nobody writes
Lock(t) ==
    /\ pc = "concurrent"
    /\ goroutines[t].at = "Lock"
    /\ mu.writer = "none"
    /\ mu.readers = {}
    /\ mu' = [mu EXCEPT !.writer = t, !.pending = @ \ {t}]
    /\ goroutines' = [goroutines EXCEPT ![t].at = "tools"]
    /\ UNCHANGED <<tools, handlers>>
    /\ UNCHANGED loopVars

\* s.tools[tool.Name] = tool
WriteTools(t) ==
    /\ pc = "concurrent"
    /\ goroutines[t].at = "tools"
    /\ tools' = MapSet(tools, goroutines[t].tool.Name, goroutines[t].tool)
    /\ goroutines' = [goroutines EXCEPT ![t].at = "handlers"]
    /\ UNCHANGED <<handlers, mu>>
    /\ UNCHANGED loopVars

\* s.handlers[tool.Name] = handler
WriteHandlers(t) ==
    /\ pc = "concurrent"
    /\ goroutines[t].at = "handlers"
    /\ handlers' = MapSet(handlers, goroutines[t].tool.Name, goroutines[t].handler)
    /\ goroutines' = [goroutines EXCEPT ![t].at = "Unlock"]
    /\ UNCHANGED <<tools, mu>>
    /\ UNCHANGED loopVars

\* the deferred s.mu.Unlock() as RegisterTool returns: a registrar is done, a
\* handler that registered returns to the dispatcher
Unlock(t) ==
    /\ pc = "concurrent"
    /\ goroutines[t].at = "Unlock"
    /\ mu' = [mu EXCEPT !.writer = "none"]
    /\ goroutines' = [goroutines EXCEPT ![t].at = IF t = Dispatcher THEN "idle" ELSE "done"]
    /\ UNCHANGED <<tools, handlers>>
    /\ UNCHANGED loopVars

\* the dispatcher reads a tools/list or a tools/call request
ReadRequest ==
    /\ pc = "concurrent"
    /\ goroutines[Dispatcher].at = "idle"
    /\ goroutines[Dispatcher].left > 0
    /\ \/ goroutines' = [goroutines EXCEPT ![Dispatcher].at = "list.RLock",
                                           ![Dispatcher].left = @ - 1]
       \/ \E n \in RegistryNames :
             goroutines' = [goroutines EXCEPT ![Dispatcher].at = "call.RLock",
                                              ![Dispatcher].name = n,
                                              ![Dispatcher].found = NoHandler,
                                              ![Dispatcher].left = @ - 1]
    /\ UNCHANGED <<tools, handlers, mu>>
    /\ UNCHANGED loopVars

\* s.mu.RLock() returns to handleToolsList or handleToolsCall: nobody writes
\* and no Lock call waits
RLock ==
    /\ pc = "concurrent"
    /\ goroutines[Dispatcher].at \in {"list.RLock", "call.RLock"}
    /\ mu.writer = "none"
    /\ mu.pending = {}
    /\ mu' = [mu EXCEPT !.readers = @ \cup {Dispatcher}]
    /\ goroutines' = [goroutines EXCEPT ![Dispatcher].at =
                         IF @ = "list.RLock" THEN "list" ELSE "lookup"]
    /\ UNCHANGED <<tools, handlers>>
    /\ UNCHANGED loopVars

\* handleToolsList ranges over s.tools and returns; the deferred RUnlock runs
ListTools ==
    /\ pc = "concurrent"
    /\ goroutines[Dispatcher].at = "list"
    /\ mu' = [mu EXCEPT !.readers = @ \ {Dispatcher}]
    /\ goroutines' = [goroutines EXCEPT ![Dispatcher].at = "idle"]
    /\ UNCHANGED <<tools, handlers>>
    /\ UNCHANGED loopVars

\* handler, ok := s.handlers[p.Name]
Lookup ==
    /\ pc = "concurrent"
    /\ goroutines[Dispatcher].at = "lookup"
    /\ LET n == goroutines[Dispatcher].name
       IN  goroutines' = [goroutines EXCEPT
                             ![Dispatcher].at = "call.RUnlock",
                             ![Dispatcher].found = IF n \in DOMAIN handlers THEN handlers[n]
                                                   ELSE NoHandler]
    /\ UNCHANGED <<tools, handlers, mu>>
    /\ UNCHANGED loopVars

\* the read lock kept until handleToolsCall returns, as a deferred RUnlock
\* would: the handler starts with the lock held
RUnlockDeferred ==
    /\ pc = "concurrent"
    /\ goroutines[Dispatcher].at = "call.RUnlock"
    /\ goroutines' = [goroutines EXCEPT ![Dispatcher].at =
                         IF goroutines[Dispatcher].found = NoHandler THEN "idle"
                         ELSE "handler"]
    /\ mu' = IF goroutines[Dispatcher].found = NoHandler
             THEN [mu EXCEPT !.readers = @ \ {Dispatcher}] ELSE mu
    /\ UNCHANGED <<tools, handlers>>
    /\ UNCHANGED loopVars

\* s.mu.RUnlock() of handleToolsCall, right after the lookup: an unknown tool
\* is answered, a known one has its handler invoked next
RUnlock ==
    /\ pc = "concurrent"
    /\ goroutines[Dispatcher].at = "call.RUnlock"
    /\ mu' = [mu EXCEPT !.readers = @ \ {Dispatcher}]
    /\ goroutines' = [goroutines EXCEPT ![Dispatcher].at =
                         IF goroutines[Dispatcher].found = NoHandler THEN "idle"
                         ELSE "handler"]
    /\ UNCHANGED <<tools, handlers>>
    /\ UNCHANGED loopVars

\* handler(ctx, p.Arguments) of a handler that registers a tool while it runs
HandlerRegisters ==
    /\ pc = "concurrent"
    /\ goroutines[Dispatcher].at = "handler"
    /\ goroutines[Dispatcher].found.registers
    /\ \E n \in RegistryNames :
          EnterRegisterTool(Dispatcher, ToolOf(Dispatcher, n), HandlerOf(Dispatcher, FALSE))

\* handler(ctx, p.Arguments) of a handler that leaves the registry alone
HandlerReturns ==
    /\ pc = "concurrent"
    /\ goroutines[Dispatcher].at = "handler"
    /\ ~goroutines[Dispatcher].found.registers
    /\ goroutines' = [goroutines EXCEPT ![Dispatcher].at = "idle"]
    /\ UNCHANGED <<tools, handlers, mu>>
    /\ UNCHANGED loopVars

CNext ==
    \/ \E t \in Registrars : CallRegisterTool(t)
    \/ \E t \in Goroutines : Lock(t)
    \/ \E t \in Goroutines : WriteTools(t)
    \/ \E t \in Goroutines : WriteHandlers(t)
    \/ \E t \in Goroutines : Unlock(t)
    \/ ReadRequest
    \/ RLock
    \/ ListTools
    \/ Lookup
    \/ RUnlock
    \/ HandlerRegisters
    \/ HandlerReturns

CSpec == CInit /\ [][CNext]_vars

-----------------------------------------------------------------------------
(* Registration against concurrent lookups *)

\* goroutine t is between the Lock and the Unlock of RegisterTool
InRegisterTool(t) == goroutines[t].at \in {"tools", "handlers", "Unlock"}

\* the dispatcher is between the RLock and the RUnlock of a lookup
InLookup == goroutines[Dispatcher].at \in {"list", "lookup", "call.RUnlock"}

\* both maps hold the same names, and each name's tool and handler come from
\* the same RegisterTool call
RegistryWhole ==
    /\ DOMAIN tools = DOMAIN handlers
    /\ \A n \in DOMAIN tools : tools[n].Description = handlers[n].by

\* C32: registration is atomic for every observer.  Two RegisterTool calls are
\* never both between Lock and Unlock, and no lookup holds its read lock while
\* one is; whenever a lookup holds its read lock, and whenever no RegisterTool
\* holds the write lock, the tool map and the handler map have the same keys
\* and each name's tool and handler come from one registration; a RegisterTool
\* that has made its two assignments has replaced both the tool and the handler
\* of its name.
C32_RegistrationAtomic ==
    /\ Cardinality({t \in Goroutines : InRegisterTool(t)}) <= 1
    /\ \A t \in Goroutines : InRegisterTool(t) => mu.writer = t /\ mu.readers = {} /\ ~InLookup
    /\ InLookup => Dispatcher \in mu.readers /\ mu.writer = "none" /\ RegistryWhole
    /\ mu.writer = "none" => RegistryWhole
    /\ \A t \in Goroutines :
          goroutines[t].at = "Unlock"
             => /\ tools[goroutines[t].tool.Name] = goroutines[t].tool
                /\ handlers[goroutines[t].tool.Name] = goroutines[t].handler

\* a lookup holds its read lock on a registry in which r2 has registered again
\* the name r1 registered, and both the tool and the handler are r2's
C32_Witness ==
    /\ goroutines["r1"].at = "done" /\ goroutines["r2"].at = "done"
    /\ goroutines["r1"].tool.Name = "a" /\ goroutines["r2"].tool.Name = "a"
    /\ tools["a"] = ToolOf("r2", "a") /\ handlers["a"].by = "r2"
    /\ goroutines[Dispatcher].at = "lookup"

-----------------------------------------------------------------------------
(* The handler of a tools/call and the registry lock *)

\* the handler of a tools/call is running: in its own code, or inside a
\* RegisterTool it called
HandlerRunning == goroutines[Dispatcher].at \in {"handler", "Lock", "tools", "handlers", "Unlock"}

\* goroutine t has returned for good: a registrar from RegisterTool, the
\* dispatcher from its last request
Finished(t) ==
    IF t = Dispatcher
    THEN goroutines[t].at = "idle" /\ goroutines[t].left = 0
    ELSE goroutines[t].at = "done"

\* C34: while the handler of a tools/call runs, the dispatcher holds no read
\* lock on the registry; a RegisterTool that waits in Lock while the handler
\* runs - called by another goroutine or by the handler itself - goes on as
\* soon as no other RegisterTool holds the write lock; and as long as some
\* goroutine has not returned, some goroutine can take a step.
C34_HandlerRunsUnlocked ==
    /\ HandlerRunning => mu.readers = {}
    /\ \A t \in Goroutines :
          HandlerRunning /\ goroutines[t].at = "Lock" /\ mu.writer = "none"
             => ENABLED Lock(t)
    /\ (\E t \in Goroutines : ~Finished(t)) => ENABLED CNext

\* the handler's own RegisterTool holds the write lock while a registrar
\* waits in Lock
C34_Witness ==
    /\ goroutines[Dispatcher].at = "tools"
    /\ mu.writer = Dispatcher
    /\ \E t \in Registrars : goroutines[t].at = "Lock"

-----------------------------------------------------------------------------
(* Lines of length 0 *)

\* C33: a blank line is skipped.  No line of length 0 is ever handled or
\* answered, and a step of the loop that takes a line from the input either
\* hands a line that is not blank to handleMessage or - the line is blank -
\* leaves the loop where it is, waiting for the next line, with the registry,
\* the session flag, the client, the output and the last response unchanged.
C33_BlankLineSkipped ==
    /\ [](pc \in {"handle", "write"} => line # Blank)
    /\ [][pc = "scan" /\ ~cancelled /\ lineNo' = lineNo + 1
             => \/ pc' = "handle" /\ line' # Blank
                \/ /\ pc' = "scan"
                   /\ UNCHANGED <<tools, handlers, initialized, config, cancelled, line,
                                  resp, invoked, out, ret>>]_vars

\* two lines were read, a blank one and then an initialize request, and the
\* only response written answers the second
C33_Witness ==
    /\ pc = "scan" /\ lineNo = 2 /\ Len(out) = 1 /\ initialized
    /\ out[1].n = 2 /\ out[1].complete /\ out[1].request.method = JStr("initialize")

-----------------------------------------------------------------------------
(* Local validation and the Gateway *)

\* the arguments of inv decode into the argument struct of its tool
ArgsDecode(inv) ==
    CASE inv.name = "search_show" -> Decodes(inv.args, {"query", "type"}, {})
      [] inv.name = "get_history" -> Decodes(inv.args, {"type"}, {"limit"})
      [] inv.name = "log_watch" ->
            Decodes(inv.args, {"type", "showName", "movieName", "watchedAt"}, {"season", "episode"})
      [] OTHER -> TRUE

\* the argument values of inv are ones its tool rejects
BadValues(inv) ==
    CASE inv.name = "search_show" -> QueryOf(inv) = ""
      [] inv.name = "log_watch" ->
            \/ TypeOf(inv) \notin {"episode", "movie"}
            \/ /\ TypeOf(inv) = "episode"
               /\ \/ StringOf(Field(inv.args, "showName")) = ""
                  \/ IntOf(Field(inv.args, "season")) < 0
                  \/ IntOf(Field(inv.args, "episode")) <= 0
            \/ TypeOf(inv) = "movie" /\ StringOf(Field(inv.args, "movieName")) = ""
      [] OTHER -> FALSE

\* the client lacks what the tool of inv needs
Unready(inv) ==
    \/ inv.name = "authenticate" /\ ~IsConfigured(config)
    \/ inv.name \in NeedToken /\ ~IsAuthenticated(config)

\* inv fails a check the handler makes itself
FailsValidation(inv) == Unready(inv) \/ ~ArgsDecode(inv) \/ BadValues(inv)

(* C35: a tool call that fails local validation - a missing client id for
   authenticate, a missing access token for get_history and log_watch,
   arguments that do not decode, an empty query, a type that is neither
   "episode" nor "movie", an empty showName or movieName, a season below 0 or an
   episode below 1 - makes no request at all and returns a result with the
   error flag and no error; a call that passes makes at least one request.  In
   get_history and log_watch the token is checked before the arguments are
   decoded: without a token the answer is the authentication message also when
   the arguments do not decode. *)
C35_ValidationBeforeGateway ==
    invoked # NoCall
       => /\ FailsValidation(invoked)
                => invoked.calls = <<>> /\ invoked.err = Nil /\ invoked.result.IsError
          /\ ~FailsValidation(invoked) => Len(invoked.calls) >= 1
          /\ invoked.name \in NeedToken /\ ~IsAuthenticated(config) /\ ~ArgsDecode(invoked)
                => invoked.result = NotAuthenticated

\* log_watch of a movie without a name, on a client with a token: rejected
\* without a request
C35_Witness ==
    /\ invoked # NoCall /\ invoked.name = "log_watch"
    /\ IsAuthenticated(config)
    /\ ArgsDecode(invoked)
    /\ TypeOf(invoked) = "movie" /\ StringOf(Field(invoked.args, "movieName")) = ""
    /\ invoked.result.IsError /\ invoked.calls = <<>>

-----------------------------------------------------------------------------
(* A tools/call without arguments *)

\* the line l is a tools/call whose params have no arguments member
OmitsArguments(l) == IsToolCall(l) /\ Member(Member(l, "params"), "arguments") = Absent

\* the line l with the empty object as the arguments of its call
WithEmptyArguments(l) ==
    Envelope(Member(l, "jsonrpc"), Member(l, "id"), Member(l, "method"),
             ToolCall(CalledTool(l), EmptyObj))

\* the responses handleMessage can return for the line data on this server
Responses(data) ==
    {h.resp : h \in HandleMessage(data, ServerWith(initialized), DispatchEnv)}

\* the tools that decode their arguments, and whether the client lets them
DecodingTools == {"search_show", "get_history", "log_watch"}
Reaches(name) == name = "search_show" \/ IsAuthenticated(config)

(* C38: a tools/call without an arguments member is not a call with the empty
   object.  When it is about to be handled, search_show - and get_history and
   log_watch on a client with an access token - can only answer it with the
   flagged "invalid arguments" result, having run the handler with absent
   arguments and made no request, and that is not among the answers to the same
   call with {} as arguments; authenticate answers it exactly as it answers the
   call with {}. *)
C38_OmittedArguments ==
    pc = "handle" /\ OmitsArguments(line) /\ CalledTool(line) \in DOMAIN handlers
       => /\ CalledTool(line) \in DecodingTools /\ Reaches(CalledTool(line))
                => /\ \A h \in HandleMessage(line, ServerWith(initialized), DispatchEnv) :
                         /\ h.resp.Error = Nil
                         /\ h.resp.Result = InvalidArguments
                         /\ h.resp.Result.IsError
                         /\ h.invoked # NoCall /\ h.invoked.args = Absent
                         /\ h.invoked.calls = <<>>
                   /\ Responses(line) \cap Responses(WithEmptyArguments(line)) = {}
          /\ CalledTool(line) = "authenticate"
                => Responses(line) = Responses(WithEmptyArguments(line))

\* get_history without arguments, on a client with a token, was answered with
\* the invalid-arguments result
C38_Witness ==
    /\ pc = "write"
    /\ OmitsArguments(line) /\ CalledTool(line) = "get_history"
    /\ IsAuthenticated(config)
    /\ invoked # NoCall /\ invoked.args = Absent /\ invoked.calls = <<>>
    /\ resp.Result = InvalidArguments

-----------------------------------------------------------------------------
(* A failed write of a response *)

\* the write of the latest response failed
LastWriteFailed == Len(out) > 0 /\ ~out[Len(out)].complete

(* C37: a failed write of a response neither ends the loop nor becomes the
   return value of RunWithIO.  The step in which the write fails leaves the
   loop at the scan of the next line, still running, with the session flag, the
   registry and the client as handling the request left them; in the state
   after it the next line can be read and handed to handleMessage; and whenever
   RunWithIO has returned, it returned nil, the context's error or an error of
   the scanner. *)
C37_WriteFailureLogged ==
    /\ [](pc = "done" => ret \in {"nil", "ctx.Err", ReadFailed, TooLong})
    /\ [](LastWriteFailed /\ out[Len(out)].n = lineNo /\ pc # "done"
             => /\ pc = "scan" /\ ret = "running"
                /\ lineNo < MaxLines /\ ~cancelled => ENABLED (ReadLine /\ pc' = "handle"))
    /\ [][pc = "write" /\ pc' # "write" /\ ~out'[Len(out')].complete
             => /\ pc' = "scan"
                /\ ret' = "running"
                /\ UNCHANGED <<tools, handlers, initialized, config, cancelled, lineNo>>]_vars

\* the write of the answer to initialize failed; the flag is set all the same,
\* and the next line is at handleMessage
C37_Witness ==
    /\ pc = "handle" /\ lineNo = 2
    /\ Len(out) = 1 /\ ~out[1].complete /\ out[1].n = 1
    /\ initialized
    /\ ret = "running"

-----------------------------------------------------------------------------
(* The end of RunWithIO and of the process *)

\* RunWithIO is inside its loop
InLoop == pc \in {"scan", "handle", "write"}

\* how far the loop is from the end of an input of MaxLines lines: the lines
\* not yet scanned, and what is left to do for the line at hand
Remaining ==
    3 * (MaxLines - lineNo)
       + (CASE pc = "handle" -> 3 [] pc = "write" -> 2 [] pc = "scan" -> 1 [] OTHER -> 0)

(* C36, as stated: RunWithIO returns a non-nil error only for a cancellation
   observed at a line or for a read error of the input; on an input that was
   read without error, with no cancellation, it returns nil. *)
C36_OnlyCancellationOrReadError ==
    pc = "done" /\ ret # "nil" => ret \in {"ctx.Err", ReadFailed}

(* C36, amended: RunWithIO returns only from the scan, between two lines, so
   every line handed to handleMessage has been handled and the write of its
   response, if it has one, has been tried; it returns nil only when the
   scanner stops without an error, the context's error only when a line was
   scanned with the context cancelled, and otherwise the scanner's error, which
   is a failed read or a line longer than the scanner's buffer.  Every step of
   the loop brings it closer to the end of a finite input.  The process exits
   with a status other than 0 exactly when RunWithIO returned an error. *)
C36_ReturnsAtEndOfInput ==
    /\ [](pc = "done"
             => /\ ret \in {"nil", "ctx.Err", ReadFailed, TooLong}
                /\ resp = Nil /\ invoked = NoCall
                /\ ExitCode(ret) # 0 <=> ret # "nil")
    /\ [][/\ pc # "done" /\ pc' = "done"
             => /\ pc = "scan"
                /\ out' = out /\ initialized' = initialized
                /\ ret' = "ctx.Err" <=> cancelled /\ lineNo' = lineNo + 1
                /\ ret' # "ctx.Err" => lineNo' = lineNo
          /\ InLoop /\ <<pc, lineNo>>' # <<pc, lineNo>> => Remaining' < Remaining
          /\ pc = "done" => pc' = "done" /\ ret' = ret]_vars

\* RunWithIO returned the scanner's error for a line that was too long, after
\* it had answered the line before it, with no cancellation
C36_Witness ==
    /\ pc = "done" /\ ret = TooLong /\ ~cancelled
    /\ lineNo = 1 /\ Len(out) = 1 /\ out[1].complete
    /\ ExitCode(ret) = 1

====
